---- MODULE Spec2Model ----
(***************************************************************************)
(* The note ordering engine of the repository: the tables notes,           *)
(* note_sequences and settings, the SQL functions move_note,               *)
(* normalize_note_sequences, normalize_sequences, get_next_sequence and     *)
(* delete_note_tree, and the client operations of noteOperations that call  *)
(* them one request at a time.                                              *)
(*                                                                         *)
(* A store is a record [notes, seqs, settings]; every table is a function   *)
(* from the primary key of its rows to the other columns.  Each request of  *)
(* a client (an insert, an update, one RPC) is one transaction.             *)
(***************************************************************************)
EXTENDS Integers, Sequences, FiniteSets, TLC

\* ------------------------------------------------------------------ bounds
MaxNotes == 3
MaxQuota == 1
SeqCap == 3

\* --------------------------------------------------------------- constants
TempSequence == 9999999
DepthCap == 50

Null == 0
Ids == 1..MaxNotes
Parents == Ids \cup {Null}
Projects == {1, 2}
Sessions == {1, 2}
Positions == 0..(MaxNotes + 1)
\* The quota of a session that may start any number of operations.
Unlimited == MaxQuota + 1

\* The notes of a chain two levels deeper than the depth the delete collects.
DeepIds == 1..(DepthCap + 2)

\* db: the committed store; pc, loc: where each session is in its operation and
\* what it holds; quota: the operations a session may still start; work: the
\* store as the open transaction sees it; start: the store of the initial
\* state, which never changes.
VARIABLES db, pc, loc, quota, work, start

vars == <<db, pc, loc, quota, work, start>>

\* ------------------------------------------------------------------ tables
EmptyTable == [x \in {} |-> 0]

NoteRow(p, par) == [project_id |-> p, parent_id |-> par]

SeqRow(p, par, s) == [project_id |-> p, parent_id |-> par, sequence |-> s]

SettingsRow(c, t) == [note_count |-> c, last_modified_at |-> t]

Store(n, s, g) == [notes |-> n, seqs |-> s, settings |-> g]

Without(f, D) == [x \in DOMAIN f \ D |-> f[x]]

\* An outcome of a statement or of a function: the store it leaves, or the
\* error it raised (the enclosing transaction is then rolled back).
Ok(st) == [ok |-> TRUE, st |-> st]

Err(st) == [ok |-> FALSE, st |-> st]

\* parent_id IS NOT DISTINCT FROM par, within one project.
Group(sq, p, par) == {n \in DOMAIN sq : sq[n].project_id = p /\ sq[n].parent_id = par}

SetMax(S) == CHOOSE x \in S : \A y \in S : y <= x

\* COALESCE(MAX(sequence), 0) of a sibling group.
MaxSequence(sq, p, par) ==
  IF Group(sq, p, par) = {} THEN 0
  ELSE SetMax({sq[n].sequence : n \in Group(sq, p, par)})

\* UNIQUE (project_id, parent_id, sequence): a row conflicts with another row
\* of equal key; rows whose parent_id is NULL never compare equal.
RowUniqueOK(sq, r) ==
  \A o \in DOMAIN sq \ {r} :
    ~(/\ sq[r].parent_id # Null
      /\ sq[o].project_id = sq[r].project_id
      /\ sq[o].parent_id = sq[r].parent_id
      /\ sq[o].sequence = sq[r].sequence)

\* REFERENCES notes(id) / settings(id) of one row.
RowRefsOK(st, row) ==
  /\ row.project_id \in DOMAIN st.settings
  /\ row.parent_id = Null \/ row.parent_id \in DOMAIN st.notes

SetSeq(sq, r, v) == [sq EXCEPT ![r].sequence = v]

\* One UPDATE over several rows, f[r] the new sequence of row r.  The
\* constraint is not deferrable: it is checked row by row, in an order the
\* statement does not fix.
RECURSIVE CanSucceed(_, _, _)
CanSucceed(sq, rows, f) ==
  \/ rows = {}
  \/ \E r \in rows : /\ RowUniqueOK(SetSeq(sq, r, f[r]), r)
                     /\ CanSucceed(SetSeq(sq, r, f[r]), rows \ {r}, f)

RECURSIVE CanFail(_, _, _)
CanFail(sq, rows, f) ==
  \E r \in rows : \/ ~RowUniqueOK(SetSeq(sq, r, f[r]), r)
                  \/ CanFail(SetSeq(sq, r, f[r]), rows \ {r}, f)

UpdateSequences(st, rows, f) ==
  LET new == [n \in DOMAIN st.seqs |-> IF n \in rows THEN [st.seqs[n] EXCEPT !.sequence = f[n]]
                                       ELSE st.seqs[n]]
  IN  {Ok([st EXCEPT !.seqs = new]) : x \in IF CanSucceed(st.seqs, rows, f) THEN {1} ELSE {}}
      \cup {Err(st) : x \in IF CanFail(st.seqs, rows, f) THEN {1} ELSE {}}

\* UPDATE note_sequences SET sequence = sequence + d WHERE <rows>.
ShiftBy(st, rows, d) ==
  UpdateSequences(st, rows, [n \in rows |-> st.seqs[n].sequence + d])

\* UPDATE note_sequences SET ... WHERE note_id = n: no row, no effect.
UpdateEntry(st, n, par, s) ==
  IF n \notin DOMAIN st.seqs THEN {Ok(st)}
  ELSE LET row == SeqRow(st.seqs[n].project_id, par, s)
           sq  == [st.seqs EXCEPT ![n] = row]
       IN  IF RowRefsOK(st, row) /\ RowUniqueOK(sq, n)
           THEN {Ok([st EXCEPT !.seqs = sq])}
           ELSE {Err(st)}

\* UPDATE notes SET parent_id = par WHERE id = n.
UpdateNoteParent(st, n, par) ==
  IF n \notin DOMAIN st.notes THEN {Ok(st)}
  ELSE IF par = Null \/ par \in DOMAIN st.notes
       THEN {Ok([st EXCEPT !.notes[n].parent_id = par])}
       ELSE {Err(st)}

\* Variant: the timestamp of the project is left as it is.
TouchProjectSkipped(st, p) == st

\* UPDATE settings SET last_modified_at = CURRENT_TIMESTAMP WHERE id = p.
TouchProject(st, p) ==
  IF p \in DOMAIN st.settings
  THEN [st EXCEPT !.settings[p].last_modified_at = "now"]
  ELSE st

\* UPDATE note_sequences SET sequence = s WHERE note_id = n.
SetEntrySequence(st, n, s) ==
  IF n \notin DOMAIN st.seqs THEN {Ok(st)}
  ELSE UpdateEntry(st, n, st.seqs[n].parent_id, s)

\* ------------------------------------------------ normalize_note_sequences
\* The rows of a group as SELECT ... ORDER BY sequence may return them: rows
\* of equal sequence come in either order.
OrderingsDescending(sq, g) ==
  {o \in [1..Cardinality(g) -> g] :
     /\ \A i, j \in DOMAIN o : i # j => o[i] # o[j]
     /\ \A i, j \in DOMAIN o : i < j => sq[o[i]].sequence >= sq[o[j]].sequence}

Orderings(sq, g) ==
  {o \in [1..Cardinality(g) -> g] :
     /\ \A i, j \in DOMAIN o : i # j => o[i] # o[j]
     /\ \A i, j \in DOMAIN o : i < j => sq[o[i]].sequence <= sq[o[j]].sequence}

\* Variant: the loop counts current_seq down from the size of the group.
RECURSIVE NormalizeFromBackwards(_, _, _)
NormalizeFromBackwards(st, o, i) ==
  IF i > Cardinality(DOMAIN o) THEN {Ok(st)}
  ELSE IF RowUniqueOK(SetSeq(st.seqs, o[i], Cardinality(DOMAIN o) + 1 - i), o[i])
       THEN NormalizeFromBackwards(
              [st EXCEPT !.seqs = SetSeq(st.seqs, o[i], Cardinality(DOMAIN o) + 1 - i)], o, i + 1)
       ELSE {Err(st)}

\* The FOR loop from its i-th row on: one UPDATE per row, current_seq = i.
RECURSIVE NormalizeFrom(_, _, _)
NormalizeFrom(st, o, i) ==
  IF i > Cardinality(DOMAIN o) THEN {Ok(st)}
  ELSE IF RowUniqueOK(SetSeq(st.seqs, o[i], i), o[i])
       THEN NormalizeFrom([st EXCEPT !.seqs = SetSeq(st.seqs, o[i], i)], o, i + 1)
       ELSE {Err(st)}

NormalizeNoteSequences(st, p, par) ==
  UNION {NormalizeFrom(st, o, 1) : o \in Orderings(st.seqs, Group(st.seqs, p, par))}

\* ------------------------------------------------------ normalize_sequences
\* ROW_NUMBER() OVER (ORDER BY sequence) of the rows of a group.
RowNumbers(sq, g) == {[n \in g |-> CHOOSE i \in DOMAIN o : o[i] = n] : o \in Orderings(sq, g)}

\* The child groups of a project: SELECT DISTINCT parent_id ... IS NOT NULL.
ChildParents(sq, p) == {sq[n].parent_id : n \in {m \in DOMAIN sq : sq[m].project_id = p}} \ {Null}

\* The second loop from the parents in todo on: one multi-row UPDATE a parent.
RECURSIVE NormalizeChildren(_, _, _)
NormalizeChildren(st, p, todo) ==
  IF todo = {} THEN {Ok(st)}
  ELSE LET par == CHOOSE x \in todo : \A y \in todo : x <= y
           g   == Group(st.seqs, p, par)
       IN  UNION {UNION {IF o.ok THEN NormalizeChildren(o.st, p, todo \ {par}) ELSE {o}
                           : o \in UpdateSequences(st, g, f)}
                    : f \in RowNumbers(st.seqs, g)}

NormalizeSequences(st, p) ==
  UNION {IF o.ok THEN NormalizeChildren(o.st, p, ChildParents(o.st.seqs, p)) ELSE {o}
           : o \in NormalizeNoteSequences(st, p, Null)}

\* ----------------------------------------------------------------- move_note
Greatest(a, b) == IF a >= b THEN a ELSE b

Least(a, b) == IF a <= b THEN a ELSE b

\* Variant: a move that does not test whether it has read a row.
MoveNoteReadUnchecked(st, n, par, pos) ==
  [found |-> TRUE, note |-> n, parent |-> par, pos |-> pos,
   project |-> IF n \in DOMAIN st.seqs THEN st.seqs[n].project_id ELSE 0,
   oldParent |-> IF n \in DOMAIN st.seqs THEN st.seqs[n].parent_id ELSE Null,
   oldSeq |-> IF n \in DOMAIN st.seqs THEN st.seqs[n].sequence ELSE 0,
   newPos |-> Greatest(1, pos)]

\* The two SELECTs and the clamp: what the function holds in its variables
\* when it starts to write.  found = FALSE: RAISE EXCEPTION, no row read.
MoveNoteRead(st, n, par, pos) ==
  IF n \notin DOMAIN st.seqs
  THEN [found |-> FALSE, note |-> n, parent |-> par, pos |-> pos,
        project |-> 0, oldParent |-> Null, oldSeq |-> 0, newPos |-> 0]
  ELSE [found |-> TRUE, note |-> n, parent |-> par, pos |-> pos,
        project |-> st.seqs[n].project_id,
        oldParent |-> st.seqs[n].parent_id,
        oldSeq |-> st.seqs[n].sequence,
        newPos |-> Greatest(1, Least(pos, MaxSequence(st.seqs, st.seqs[n].project_id, par) + 1))]

\* Variant: the first step gives the note its new parent and leaves its
\* sequence as it is.
MoveParkKeepsSequence(st, a) == UpdateEntry(st, a.note, a.parent, a.oldSeq)

\* STEP 1: park the note in the new group at the temporary sequence.
MovePark(st, a) == UpdateEntry(st, a.note, a.parent, TempSequence)

\* STEP 2: the parent in the notes table.
MoveNotes(st, a) == UpdateNoteParent(st, a.note, a.parent)

\* Variant: a move that forgets its shifts.
MoveShiftSkipped(st, a) == {Ok(st)}

\* Variant: the shift of a move within a group lowers every entry after the
\* old place of the note, whatever the new place.
MoveShiftUnbounded(st, a) ==
  IF a.oldParent = a.parent
  THEN ShiftBy(st, {n \in Group(st.seqs, a.project, a.parent) :
                      st.seqs[n].sequence > a.oldSeq /\ st.seqs[n].sequence < TempSequence}, -1)
  ELSE {Ok(st)}

\* Variant: the shift of a move to an earlier place leaves the entry at the
\* new place where it is.
MoveShiftAfterNewPlace(st, a) ==
  IF a.oldParent = a.parent
  THEN IF a.oldSeq < a.newPos
       THEN ShiftBy(st, {n \in Group(st.seqs, a.project, a.parent) :
                           st.seqs[n].sequence > a.oldSeq /\ st.seqs[n].sequence <= a.newPos}, -1)
       ELSE ShiftBy(st, {n \in Group(st.seqs, a.project, a.parent) :
                           st.seqs[n].sequence > a.newPos /\ st.seqs[n].sequence < a.oldSeq}, 1)
  ELSE {Ok(st)}

\* Variant: the shift in the new group of a move to another parent starts
\* after the new place.
MoveShiftNewGroupLate(st, a) ==
  IF a.oldParent = a.parent
  THEN IF a.oldSeq < a.newPos
       THEN ShiftBy(st, {n \in Group(st.seqs, a.project, a.parent) :
                           st.seqs[n].sequence > a.oldSeq /\ st.seqs[n].sequence <= a.newPos}, -1)
       ELSE ShiftBy(st, {n \in Group(st.seqs, a.project, a.parent) :
                           st.seqs[n].sequence >= a.newPos /\ st.seqs[n].sequence < a.oldSeq}, 1)
  ELSE UNION {IF o.ok
              THEN ShiftBy(o.st, {n \in Group(o.st.seqs, a.project, a.parent) :
                                    o.st.seqs[n].sequence > a.newPos}, 1)
              ELSE {o}
                : o \in ShiftBy(st, {n \in Group(st.seqs, a.project, a.oldParent) :
                                       st.seqs[n].sequence > a.oldSeq}, -1)}

\* STEP 3: the shifts.
MoveShift(st, a) ==
  IF a.oldParent = a.parent
  THEN IF a.oldSeq < a.newPos
       THEN ShiftBy(st, {n \in Group(st.seqs, a.project, a.parent) :
                           st.seqs[n].sequence > a.oldSeq /\ st.seqs[n].sequence <= a.newPos}, -1)
       ELSE ShiftBy(st, {n \in Group(st.seqs, a.project, a.parent) :
                           st.seqs[n].sequence >= a.newPos /\ st.seqs[n].sequence < a.oldSeq}, 1)
  ELSE UNION {IF o.ok
              THEN ShiftBy(o.st, {n \in Group(o.st.seqs, a.project, a.parent) :
                                    o.st.seqs[n].sequence >= a.newPos}, 1)
              ELSE {o}
                : o \in ShiftBy(st, {n \in Group(st.seqs, a.project, a.oldParent) :
                                       st.seqs[n].sequence > a.oldSeq}, -1)}

\* Variant: a move that leaves its note parked; the normalization brings it
\* to the end of its group.
MovePlaceSkipped(st, a) == {Ok(st)}

\* STEP 4: the final sequence.
MovePlace(st, a) == SetEntrySequence(st, a.note, a.newPos)

\* Variant: a move that ends at its placement, with no normalization.
MoveNormalizeSkipped(st, a) == {Ok(st)}

\* Variant: a move ends with the normalization of every group of the project.
MoveNormalizeWholeProject(st, a) == NormalizeSequences(st, a.project)

\* Variant: a move normalizes the group the note arrives in and no other.
MoveNormalizeNewGroupOnly(st, a) == NormalizeNoteSequences(st, a.project, a.parent)

\* STEP 5: normalize the old group, and the new one when it is another.
MoveNormalize(st, a) ==
  IF a.oldParent = a.parent
  THEN NormalizeNoteSequences(st, a.project, a.oldParent)
  ELSE UNION {IF o.ok THEN NormalizeNoteSequences(o.st, a.project, a.parent) ELSE {o}
                : o \in NormalizeNoteSequences(st, a.project, a.oldParent)}

AfterPark(st, a) == MovePark(st, a)

AfterNotes(st, a) == UNION {IF o.ok THEN MoveNotes(o.st, a) ELSE {o} : o \in AfterPark(st, a)}

AfterShift(st, a) == UNION {IF o.ok THEN MoveShift(o.st, a) ELSE {o} : o \in AfterNotes(st, a)}

AfterPlace(st, a) == UNION {IF o.ok THEN MovePlace(o.st, a) ELSE {o} : o \in AfterShift(st, a)}

AfterNormalize(st, a) == UNION {IF o.ok THEN MoveNormalize(o.st, a) ELSE {o} : o \in AfterPlace(st, a)}

\* The earlier move_note, which the last migration replaces: its park changes
\* the sequence only, its placement sets the parent too, and it ends there,
\* with no normalization.  Its reads, clamp and shifts are the same statements.
EarlierMovePark(st, a) == SetEntrySequence(st, a.note, TempSequence)

EarlierMovePlace(st, a) == UpdateEntry(st, a.note, a.parent, a.newPos)

EarlierAfterNotes(st, a) ==
  UNION {IF o.ok THEN MoveNotes(o.st, a) ELSE {o} : o \in EarlierMovePark(st, a)}

EarlierAfterShift(st, a) ==
  UNION {IF o.ok THEN MoveShift(o.st, a) ELSE {o} : o \in EarlierAfterNotes(st, a)}

EarlierMoveNote(st, a) ==
  UNION {IF o.ok THEN EarlierMovePlace(o.st, a) ELSE {o} : o \in EarlierAfterShift(st, a)}

\* The statements of move_note after its reads, to the end of the function.
MoveNoteWrite(st, a) ==
  {IF o.ok THEN Ok(TouchProject(o.st, a.project)) ELSE o : o \in AfterNormalize(st, a)}

\* ---------------------------------------------------------- delete_note_tree
\* ON DELETE CASCADE of notes.parent_id: the notes that go with the notes D.
RECURSIVE Cascade(_, _)
Cascade(nt, D) ==
  IF {n \in DOMAIN nt \ D : nt[n].parent_id \in D} = {} THEN D
  ELSE Cascade(nt, D \cup {n \in DOMAIN nt : nt[n].parent_id \in D})

\* DELETE FROM notes WHERE id IN D, with the cascades of the three foreign
\* keys: child notes, entries of deleted notes, entries under deleted notes.
DeleteNotes(st, D) ==
  [st EXCEPT !.notes = Without(st.notes, Cascade(st.notes, D)),
             !.seqs = Without(st.seqs, {n \in DOMAIN st.seqs :
                                          \/ n \in Cascade(st.notes, D)
                                          \/ st.seqs[n].parent_id \in Cascade(st.notes, D)})]

\* WITH RECURSIVE descendants: the rows of depth d are in level; a row of
\* depth DepthCap is not joined again.
RECURSIVE Descendants(_, _, _)
Descendants(nt, level, d) ==
  IF level = {} THEN {}
  ELSE IF d >= DepthCap THEN level
  ELSE level \cup Descendants(nt, {n \in DOMAIN nt : nt[n].parent_id \in level}, d + 1)

NotesToDelete(st, root) == Descendants(st.notes, {root} \cap DOMAIN st.notes, 1)

\* Variant: the delete refreshes the timestamp and leaves note_count alone.
RecountTouchesOnly(st, p) == TouchProject(st, p)

\* UPDATE settings SET note_count = (SELECT COUNT(*) ...), last_modified_at.
Recount(st, p) ==
  IF p \in DOMAIN st.settings
  THEN [st EXCEPT !.settings[p] =
          SettingsRow(Cardinality({n \in DOMAIN st.notes : st.notes[n].project_id = p}), "now")]
  ELSE st

\* Variant: a delete that removes the root and leaves what is below it.
DeleteRootOnly(st, root) ==
  IF root \notin DOMAIN st.notes THEN st
  ELSE Recount([st EXCEPT !.notes = Without(st.notes, {root}), !.seqs = Without(st.seqs, {root})],
               st.notes[root].project_id)

\* Variant: a delete that closes the gap it leaves in the group of its root.
DeleteAndRenumber(st, root) ==
  IF root \notin DOMAIN st.notes THEN st
  ELSE (CHOOSE o \in NormalizeNoteSequences(
                       Recount(DeleteNotes(st, NotesToDelete(st, root)), st.notes[root].project_id),
                       st.notes[root].project_id, st.notes[root].parent_id) : o.ok).st

DeleteNoteTree(st, root) ==
  IF root \notin DOMAIN st.notes THEN st
  ELSE Recount(DeleteNotes([st EXCEPT !.seqs = Without(st.seqs, NotesToDelete(st, root))],
                           NotesToDelete(st, root)),
               st.notes[root].project_id)

\* ------------------------------------------------------ noteOperations.create
\* crypto.randomUUID(): an id no note has; the least one stands for any.
FreshIds(st) == Ids \ (DOMAIN st.notes \cup DOMAIN st.seqs)

NewNoteId(st) == CHOOSE i \in FreshIds(st) : \A j \in FreshIds(st) : i <= j

\* supabase.from('notes').insert(...)
InsertNote(st, id, p, par) ==
  IF id \notin DOMAIN st.notes /\ RowRefsOK(st, NoteRow(p, par))
  THEN {Ok([st EXCEPT !.notes = (id :> NoteRow(p, par)) @@ st.notes])}
  ELSE {Err(st)}

\* Variant: a create that reads its sequence as the maximum of the group, without the
\* increment.
GetNextSequenceNoIncrement(st, p, par) == MaxSequence(st.seqs, p, par)

\* Variant: a create that takes the size of the group plus one.
GetNextSequenceBySize(st, p, par) == Cardinality(Group(st.seqs, p, par)) + 1

\* get_next_sequence(p_project_id, p_parent_id)
GetNextSequence(st, p, par) == MaxSequence(st.seqs, p, par) + 1

\* supabase.from('note_sequences').insert(... sequence: sequence || 1)
InsertSequence(st, id, p, par, s) ==
  LET row == SeqRow(p, par, IF s = 0 THEN 1 ELSE s)
      sq  == (id :> row) @@ st.seqs
  IN  IF /\ id \notin DOMAIN st.seqs
         /\ id \in DOMAIN st.notes
         /\ RowRefsOK(st, row)
         /\ RowUniqueOK(sq, id)
      THEN {Ok([st EXCEPT !.seqs = sq])}
      ELSE {Err(st)}

\* supabase.from('notes').delete().eq('id', noteId)
DeleteNote(st, id) == DeleteNotes(st, {id} \cap DOMAIN st.notes)

\* ------------------------------------------------------------------ sessions
NoLoc == [op |-> "none", note |-> 0, parent |-> 0, pos |-> 0, project |-> 0,
          oldParent |-> 0, oldSeq |-> 0, newPos |-> 0, seq |-> 0, result |-> "none",
          stage |-> "none", ids |-> {}, order |-> <<>>, row |-> 0,
          level |-> {}, depth |-> 0, back |-> FALSE, tree |-> <<>>]

NoTxn == "none"

\* A session may start an operation while its quota lasts.
MayCall(s) == pc[s] = "idle" /\ quota[s] # 0

Spend(s) == quota' = [quota EXCEPT ![s] = IF @ = Unlimited THEN @ ELSE @ - 1]

Goto(s, l) == pc' = [pc EXCEPT ![s] = l]

SetLoc(s, r) == loc' = [loc EXCEPT ![s] = r]

\* noteOperations.create, first request: the insert into notes.
CreateInsertNote(s) ==
  /\ MayCall(s)
  /\ FreshIds(db) # {}
  /\ \E p \in Projects, par \in Parents :
       /\ GetNextSequence(db, p, par) <= SeqCap
       /\ \E o \in InsertNote(db, NewNoteId(db), p, par) :
            /\ db' = o.st
            /\ Goto(s, IF o.ok THEN "create_seq" ELSE "done")
            /\ SetLoc(s, [NoLoc EXCEPT !.op = "create", !.note = NewNoteId(db), !.project = p,
                                       !.parent = par,
                                       !.result = IF o.ok THEN "none" ELSE "error"])
  /\ Spend(s)
  /\ UNCHANGED <<work, start>>

\* second request: sequenceOperations.getNextSequence.
CreateGetSequence(s) ==
  /\ pc[s] = "create_seq"
  /\ GetNextSequence(db, loc[s].project, loc[s].parent) <= SeqCap
  /\ SetLoc(s, [loc[s] EXCEPT !.seq = GetNextSequence(db, loc[s].project, loc[s].parent)])
  /\ Goto(s, "create_ins")
  /\ UNCHANGED <<db, quota, work, start>>

\* third request: the insert into note_sequences; seqError is a violated
\* constraint or any other failure of the request.
CreateInsertSequence(s) ==
  /\ pc[s] = "create_ins"
  /\ \/ \E o \in InsertSequence(db, loc[s].note, loc[s].project, loc[s].parent, loc[s].seq) :
          /\ db' = o.st
          /\ Goto(s, IF o.ok THEN "done" ELSE "create_cleanup")
          /\ SetLoc(s, [loc[s] EXCEPT !.result = IF o.ok THEN "ok" ELSE "error"])
     \/ /\ db' = db
        /\ Goto(s, "create_cleanup")
        /\ SetLoc(s, [loc[s] EXCEPT !.result = "failed"])
  /\ UNCHANGED <<quota, work, start>>

\* the clean-up request after a failed insert: it deletes the note, or it
\* fails as the insert did; its error is not looked at.
CreateCleanup(s) ==
  /\ pc[s] = "create_cleanup"
  /\ \/ db' = DeleteNote(db, loc[s].note)
     \/ db' = db
  /\ Goto(s, "done")
  /\ UNCHANGED <<loc, quota, work, start>>

\* noteOperations.move, the RPC: move_note starts and reads.
MoveCall(s) ==
  /\ MayCall(s)
  /\ \E n \in Ids, par \in Parents, pos \in Positions :
       LET a == MoveNoteRead(db, n, par, pos)
       IN  /\ SetLoc(s, [NoLoc EXCEPT !.op = "move", !.note = n, !.parent = par, !.pos = pos,
                                      !.project = a.project, !.oldParent = a.oldParent,
                                      !.oldSeq = a.oldSeq, !.newPos = a.newPos,
                                      !.result = IF a.found THEN "none" ELSE "error"])
           /\ Goto(s, IF a.found THEN "move_rpc" ELSE "done")
  /\ Spend(s)
  /\ UNCHANGED <<db, work, start>>

\* Variant: an error of move_note is not passed on to the caller.
MoveWriteHidesError(s) ==
  /\ pc[s] = "move_rpc"
  /\ \E o \in MoveNoteWrite(db, loc[s]) :
       /\ db' = IF o.ok THEN o.st ELSE db
       /\ Goto(s, "move_upd")
       /\ SetLoc(s, [loc[s] EXCEPT !.result = "ok"])
  /\ UNCHANGED <<quota, work, start>>

\* move_note writes and commits, or raises and is rolled back.
MoveWrite(s) ==
  /\ pc[s] = "move_rpc"
  /\ \E o \in MoveNoteWrite(db, loc[s]) :
       /\ db' = IF o.ok THEN o.st ELSE db
       /\ Goto(s, IF o.ok THEN "move_upd" ELSE "done")
       /\ SetLoc(s, [loc[s] EXCEPT !.result = IF o.ok THEN "ok" ELSE "error"])
  /\ UNCHANGED <<quota, work, start>>

\* noteOperations.move, second request: the parent in the notes table.
MoveUpdateNotes(s) ==
  /\ pc[s] = "move_upd"
  /\ \E o \in UpdateNoteParent(db, loc[s].note, loc[s].parent) :
       /\ db' = o.st
       /\ SetLoc(s, [loc[s] EXCEPT !.result = IF o.ok THEN "ok" ELSE "error"])
  /\ Goto(s, "done")
  /\ UNCHANGED <<quota, work, start>>

\* ---- move_note statement by statement, inside its transaction
\* The statements of the function that write note_sequences and notes.
TxnStages == {"txn_park", "txn_notes", "txn_shift", "txn_place", "txn_norm", "txn_commit"}

\* The RPC starts: the transaction opens on the committed store and reads.
TxnBegin(s) ==
  /\ MayCall(s)
  /\ work = NoTxn
  /\ \E n \in Ids, par \in Parents, pos \in Positions :
       LET a == MoveNoteRead(db, n, par, pos)
       IN  /\ SetLoc(s, [NoLoc EXCEPT !.op = "move", !.note = n, !.parent = par, !.pos = pos,
                                      !.project = a.project, !.oldParent = a.oldParent,
                                      !.oldSeq = a.oldSeq, !.newPos = a.newPos,
                                      !.result = IF a.found THEN "none" ELSE "error"])
           /\ Goto(s, IF a.found THEN "txn_park" ELSE "done")
           /\ work' = IF a.found THEN db ELSE NoTxn
  /\ Spend(s)
  /\ UNCHANGED <<db, start>>

\* One statement: it writes the transaction's copy, or it raises, and the
\* transaction is rolled back.
TxnApply(s, outs, next) ==
  /\ \E o \in outs :
       /\ work' = IF o.ok THEN o.st ELSE NoTxn
       /\ Goto(s, IF o.ok THEN next ELSE "done")
       /\ SetLoc(s, IF o.ok THEN loc[s] ELSE [loc[s] EXCEPT !.result = "error", !.stage = pc[s]])
  /\ UNCHANGED <<db, quota, start>>

TxnPark(s) == pc[s] = "txn_park" /\ TxnApply(s, MovePark(work, loc[s]), "txn_notes")

TxnNotes(s) == pc[s] = "txn_notes" /\ TxnApply(s, MoveNotes(work, loc[s]), "txn_shift")

TxnShift(s) == pc[s] = "txn_shift" /\ TxnApply(s, MoveShift(work, loc[s]), "txn_place")

TxnPlace(s) == pc[s] = "txn_place" /\ TxnApply(s, MovePlace(work, loc[s]), "txn_norm")

TxnNormalize(s) == pc[s] = "txn_norm" /\ TxnApply(s, MoveNormalize(work, loc[s]), "txn_commit")

\* The last statement and the end of the function: the transaction commits.
TxnCommit(s) ==
  /\ pc[s] = "txn_commit"
  /\ db' = TouchProject(work, loc[s].project)
  /\ work' = NoTxn
  /\ Goto(s, "move_upd")
  /\ SetLoc(s, [loc[s] EXCEPT !.result = "ok"])
  /\ UNCHANGED <<quota, start>>

\* Variant: what an interrupted call has written stays.
TxnAbortKeepsWrites(s) ==
  /\ pc[s] \in TxnStages
  /\ db' = work
  /\ work' = NoTxn
  /\ Goto(s, "done")
  /\ SetLoc(s, [loc[s] EXCEPT !.result = "error", !.stage = pc[s]])
  /\ UNCHANGED <<quota, start>>

\* The call is interrupted between two statements (the connection drops, the
\* statement times out, the server stops): the transaction is rolled back.
TxnAbort(s) ==
  /\ pc[s] \in TxnStages
  /\ db' = db
  /\ work' = NoTxn
  /\ Goto(s, "done")
  /\ SetLoc(s, [loc[s] EXCEPT !.result = "error", !.stage = pc[s]])
  /\ UNCHANGED <<quota, start>>

\* ---- delete_note_tree statement by statement, inside its transaction
DelStages == {"del_seqs", "del_notes", "del_count", "del_commit"}

\* DELETE FROM note_sequences WHERE note_id = ANY(notes_to_delete)
DeleteEntries(st, D) == [st EXCEPT !.seqs = Without(st.seqs, D)]

\* The RPC starts: the transaction opens, reads the project of the root and
\* collects the ids; a root that does not exist gives no project and no id.
DelBegin(s) ==
  /\ MayCall(s)
  /\ work = NoTxn
  /\ \E root \in Ids :
       SetLoc(s, [NoLoc EXCEPT !.op = "delete", !.note = root,
                               !.project = IF root \in DOMAIN db.notes
                                           THEN db.notes[root].project_id ELSE 0,
                               !.ids = NotesToDelete(db, root)])
  /\ work' = db
  /\ Goto(s, "del_seqs")
  /\ Spend(s)
  /\ UNCHANGED <<db, start>>

DelEntries(s) ==
  /\ pc[s] = "del_seqs"
  /\ work' = DeleteEntries(work, loc[s].ids)
  /\ Goto(s, "del_notes")
  /\ UNCHANGED <<db, loc, quota, start>>

DelNotes(s) ==
  /\ pc[s] = "del_notes"
  /\ work' = DeleteNotes(work, loc[s].ids)
  /\ Goto(s, "del_count")
  /\ UNCHANGED <<db, loc, quota, start>>

DelRecount(s) ==
  /\ pc[s] = "del_count"
  /\ work' = Recount(work, loc[s].project)
  /\ Goto(s, "del_commit")
  /\ UNCHANGED <<db, loc, quota, start>>

\* The end of the function: the transaction commits.
DelCommit(s) ==
  /\ pc[s] = "del_commit"
  /\ db' = work
  /\ work' = NoTxn
  /\ Goto(s, "done")
  /\ SetLoc(s, [loc[s] EXCEPT !.result = "ok"])
  /\ UNCHANGED <<quota, start>>

\* Variant: what an interrupted delete has written stays.
DelAbortKeepsWrites(s) ==
  /\ pc[s] \in DelStages
  /\ db' = work
  /\ work' = NoTxn
  /\ Goto(s, "done")
  /\ SetLoc(s, [loc[s] EXCEPT !.result = "error", !.stage = pc[s]])
  /\ UNCHANGED <<quota, start>>

\* The call is interrupted between two statements: the transaction is rolled
\* back.
DelAbort(s) ==
  /\ pc[s] \in DelStages
  /\ db' = db
  /\ work' = NoTxn
  /\ Goto(s, "done")
  /\ SetLoc(s, [loc[s] EXCEPT !.result = "error", !.stage = pc[s]])
  /\ UNCHANGED <<quota, start>>

\* noteOperations.delete: the RPC that deletes the tree of a note.
DeleteOf(s, roots) ==
  /\ MayCall(s)
  /\ \E root \in roots :
       /\ db' = DeleteNoteTree(db, root)
       /\ SetLoc(s, [NoLoc EXCEPT !.op = "delete", !.note = root, !.result = "ok"])
  /\ Goto(s, "done")
  /\ Spend(s)
  /\ UNCHANGED <<work, start>>

Delete(s) == DeleteOf(s, Ids)

\* The same call on a store whose notes are those of DeepIds.
DeleteDeep(s) == DeleteOf(s, DeepIds)

\* normalize_note_sequences(project, parent) called on its own.
NormalizeGroup(s) ==
  /\ MayCall(s)
  /\ \E p \in Projects, par \in Parents :
       \E o \in NormalizeNoteSequences(db, p, par) :
         /\ db' = IF o.ok THEN o.st ELSE db
         /\ SetLoc(s, [NoLoc EXCEPT !.op = "normalize", !.project = p, !.parent = par,
                                    !.result = IF o.ok THEN "ok" ELSE "error"])
  /\ Goto(s, "done")
  /\ Spend(s)
  /\ UNCHANGED <<work, start>>

\* normalize_sequences(project) called on its own.
NormalizeAll(s) ==
  /\ MayCall(s)
  /\ \E p \in Projects :
       \E o \in NormalizeSequences(db, p) :
         /\ db' = IF o.ok THEN o.st ELSE db
         /\ SetLoc(s, [NoLoc EXCEPT !.op = "normalize_all", !.project = p,
                                    !.result = IF o.ok THEN "ok" ELSE "error"])
  /\ Goto(s, "done")
  /\ Spend(s)
  /\ UNCHANGED <<work, start>>

\* The operation has returned to its caller.
Return(s) ==
  /\ pc[s] = "done"
  /\ Goto(s, "idle")
  /\ SetLoc(s, NoLoc)
  /\ UNCHANGED <<db, quota, work, start>>

\* ------------------------------------------------------------ specifications
EmptyStore(projects) ==
  Store(EmptyTable, EmptyTable, [p \in projects |-> SettingsRow(0, "old")])

\* One project, one session, no limit on its operations.
Init ==
  /\ db = EmptyStore({1})
  /\ pc = [s \in Sessions |-> "idle"]
  /\ loc = [s \in Sessions |-> NoLoc]
  /\ quota = [s \in Sessions |-> IF s = 1 THEN Unlimited ELSE 0]
  /\ work = NoTxn
  /\ start = db

Next ==
  \/ \E s \in Sessions : CreateInsertNote(s)
  \/ \E s \in Sessions : CreateGetSequence(s)
  \/ \E s \in Sessions : CreateInsertSequence(s)
  \/ \E s \in Sessions : CreateCleanup(s)
  \/ \E s \in Sessions : MoveCall(s)
  \/ \E s \in Sessions : MoveWrite(s)
  \/ \E s \in Sessions : MoveUpdateNotes(s)
  \/ \E s \in Sessions : Delete(s)
  \/ \E s \in Sessions : NormalizeGroup(s)
  \/ \E s \in Sessions : NormalizeAll(s)
  \/ \E s \in Sessions : Return(s)

Spec == Init /\ [][Next]_vars

\* Two sessions that each create MaxQuota notes, in a project that is empty or
\* holds one note.
OneNoteStore ==
  Store(1 :> NoteRow(1, Null), 1 :> SeqRow(1, Null, 1), [p \in {1} |-> SettingsRow(0, "old")])

InitCreate ==
  /\ db \in {EmptyStore({1}), OneNoteStore}
  /\ pc = [s \in Sessions |-> "idle"]
  /\ loc = [s \in Sessions |-> NoLoc]
  /\ quota = [s \in Sessions |-> MaxQuota]
  /\ work = NoTxn
  /\ start = db

NextCreate ==
  \/ \E s \in Sessions : CreateInsertNote(s)
  \/ \E s \in Sessions : CreateGetSequence(s)
  \/ \E s \in Sessions : CreateInsertSequence(s)
  \/ \E s \in Sessions : CreateCleanup(s)
  \/ \E s \in Sessions : Return(s)

SpecCreate == InitCreate /\ [][NextCreate]_vars

\* The project after MaxNotes creates, the parent of each note given by f: the
\* notes of a group are numbered in the order of their creation.
ShapeStore(f) ==
  Store([n \in Ids |-> NoteRow(1, f[n])],
        [n \in Ids |-> SeqRow(1, f[n], Cardinality({m \in Ids : m <= n /\ f[m] = f[n]}))],
        [p \in {1} |-> SettingsRow(0, "old")])

\* All notes at the root; or note 1 at the root and the others under it.
Shapes == {[n \in Ids |-> Null], [n \in Ids |-> IF n = 1 THEN Null ELSE 1]}

\* Two sessions that each move MaxQuota notes.
InitMove ==
  /\ db \in {ShapeStore(f) : f \in Shapes}
  /\ pc = [s \in Sessions |-> "idle"]
  /\ loc = [s \in Sessions |-> NoLoc]
  /\ quota = [s \in Sessions |-> MaxQuota]
  /\ work = NoTxn
  /\ start = db

NextMove ==
  \/ \E s \in Sessions : MoveCall(s)
  \/ \E s \in Sessions : MoveWrite(s)
  \/ \E s \in Sessions : MoveUpdateNotes(s)
  \/ \E s \in Sessions : Return(s)

SpecMove == InitMove /\ [][NextMove]_vars


\* One session that moves MaxQuota notes, its transaction statement by
\* statement.
InitTxn ==
  /\ db \in {ShapeStore(f) : f \in Shapes}
  /\ pc = [s \in Sessions |-> "idle"]
  /\ loc = [s \in Sessions |-> NoLoc]
  /\ quota = [s \in Sessions |-> IF s = 1 THEN MaxQuota ELSE 0]
  /\ work = NoTxn
  /\ start = db

NextTxn ==
  \/ \E s \in Sessions : TxnBegin(s)
  \/ \E s \in Sessions : TxnPark(s)
  \/ \E s \in Sessions : TxnNotes(s)
  \/ \E s \in Sessions : TxnShift(s)
  \/ \E s \in Sessions : TxnPlace(s)
  \/ \E s \in Sessions : TxnNormalize(s)
  \/ \E s \in Sessions : TxnCommit(s)
  \/ \E s \in Sessions : TxnAbort(s)
  \/ \E s \in Sessions : MoveUpdateNotes(s)
  \/ \E s \in Sessions : Return(s)

SpecTxn == InitTxn /\ [][NextTxn]_vars

\* One session that deletes MaxQuota trees, in a project of MaxNotes notes
\* whose parents are any the moves can give them.
InitDelete ==
  /\ db \in {ShapeStore(f) : f \in [Ids -> Parents]}
  /\ pc = [s \in Sessions |-> "idle"]
  /\ loc = [s \in Sessions |-> NoLoc]
  /\ quota = [s \in Sessions |-> IF s = 1 THEN MaxQuota ELSE 0]
  /\ work = NoTxn
  /\ start = db

NextDelete ==
  \/ \E s \in Sessions : Delete(s)
  \/ \E s \in Sessions : Return(s)

SpecDelete == InitDelete /\ [][NextDelete]_vars

\* One session that deletes MaxQuota trees, its transaction statement by
\* statement.
InitDelTxn == InitDelete

NextDelTxn ==
  \/ \E s \in Sessions : DelBegin(s)
  \/ \E s \in Sessions : DelEntries(s)
  \/ \E s \in Sessions : DelNotes(s)
  \/ \E s \in Sessions : DelRecount(s)
  \/ \E s \in Sessions : DelCommit(s)
  \/ \E s \in Sessions : DelAbort(s)
  \/ \E s \in Sessions : Return(s)

SpecDelTxn == InitDelTxn /\ [][NextDelTxn]_vars

\* A chain of len notes: note 1 at the root, note n + 1 the only child of
\* note n.
ChainStore(len) ==
  Store([n \in 1..len |-> NoteRow(1, IF n = 1 THEN Null ELSE n - 1)],
        [n \in 1..len |-> SeqRow(1, IF n = 1 THEN Null ELSE n - 1, 1)],
        [p \in {1} |-> SettingsRow(0, "old")])

\* One session that deletes MaxQuota trees of a chain about as deep as the
\* depth the delete collects.
InitDeep ==
  /\ db \in {ChainStore(len) : len \in (DepthCap - 1)..(DepthCap + 2)}
  /\ pc = [s \in Sessions |-> "idle"]
  /\ loc = [s \in Sessions |-> NoLoc]
  /\ quota = [s \in Sessions |-> IF s = 1 THEN MaxQuota ELSE 0]
  /\ work = NoTxn
  /\ start = db

NextDeep ==
  \/ \E s \in Sessions : DeleteDeep(s)
  \/ \E s \in Sessions : Return(s)

SpecDeep == InitDeep /\ [][NextDeep]_vars

\* A project whose note n has parent f[n] and sequence q[n].
SeqStore(f, q) ==
  Store([n \in Ids |-> NoteRow(1, f[n])],
        [n \in Ids |-> SeqRow(1, f[n], q[n])],
        [p \in {1} |-> SettingsRow(0, "old")])

\* The parents of a forest: a note is at the root or under a note made before
\* it.
Forests == {f \in [Ids -> Parents] : \A n \in Ids : f[n] < n}

\* The sequences the unique constraint admits: any under the NULL parent,
\* where creates that overlap leave duplicates; distinct ones under a note.
Admitted(f) ==
  {q \in [Ids -> 1..SeqCap] :
     \A n, m \in Ids : (n # m /\ f[n] = f[m] /\ f[n] # Null) => q[n] # q[m]}

\* One session that calls MaxQuota normalizations on a project whose groups
\* are dense, hold gaps, or (at the root) hold duplicates.
InitNormalize ==
  /\ db \in UNION {{SeqStore(f, q) : q \in Admitted(f)} : f \in Forests}
  /\ pc = [s \in Sessions |-> "idle"]
  /\ loc = [s \in Sessions |-> NoLoc]
  /\ quota = [s \in Sessions |-> IF s = 1 THEN MaxQuota ELSE 0]
  /\ work = NoTxn
  /\ start = db

NextNormalize ==
  \/ \E s \in Sessions : NormalizeGroup(s)
  \/ \E s \in Sessions : NormalizeAll(s)
  \/ \E s \in Sessions : Return(s)

SpecNormalize == InitNormalize /\ [][NextNormalize]_vars

\* One session that calls MaxQuota moves on a project whose groups are dense,
\* hold gaps, or (at the root) hold duplicates.
InitMoveAny ==
  /\ db \in UNION {{SeqStore(f, q) : q \in Admitted(f)} : f \in Forests}
  /\ pc = [s \in Sessions |-> "idle"]
  /\ loc = [s \in Sessions |-> NoLoc]
  /\ quota = [s \in Sessions |-> IF s = 1 THEN MaxQuota ELSE 0]
  /\ work = NoTxn
  /\ start = db

NextMoveAny ==
  \/ \E s \in Sessions : MoveCall(s)
  \/ \E s \in Sessions : MoveWrite(s)
  \/ \E s \in Sessions : MoveUpdateNotes(s)
  \/ \E s \in Sessions : Return(s)

SpecMoveAny == InitMoveAny /\ [][NextMoveAny]_vars

\* Two projects: note n is at the root of project g[n], where the creates of
\* that project have put it.
TwoProjectStore(g) ==
  Store([n \in Ids |-> NoteRow(g[n], Null)],
        [n \in Ids |-> SeqRow(g[n], Null, Cardinality({m \in Ids : m <= n /\ g[m] = g[n]}))],
        [p \in Projects |-> SettingsRow(0, "old")])

\* One session that calls MaxQuota moves on the notes of two projects.
InitMoveAcross ==
  /\ db \in {TwoProjectStore(g) : g \in [Ids -> Projects]}
  /\ pc = [s \in Sessions |-> "idle"]
  /\ loc = [s \in Sessions |-> NoLoc]
  /\ quota = [s \in Sessions |-> IF s = 1 THEN MaxQuota ELSE 0]
  /\ work = NoTxn
  /\ start = db

NextMoveAcross ==
  \/ \E s \in Sessions : MoveCall(s)
  \/ \E s \in Sessions : MoveWrite(s)
  \/ \E s \in Sessions : MoveUpdateNotes(s)
  \/ \E s \in Sessions : Return(s)

SpecMoveAcross == InitMoveAcross /\ [][NextMoveAcross]_vars

\* A project whose note n has parent f[n]; the notes of D have no entry yet
\* (their create has inserted the note and not the entry), the others are
\* numbered in the order of their creation.
PendingStore(f, D) ==
  Store([n \in Ids |-> NoteRow(1, f[n])],
        [n \in Ids \ D |->
           SeqRow(1, f[n], Cardinality({m \in Ids \ D : m <= n /\ f[m] = f[n]}))],
        [p \in {1} |-> SettingsRow(0, "old")])

\* One session that calls MaxQuota moves on a project where some notes have
\* no entry.
InitMovePending ==
  /\ db \in {PendingStore(f, D) : f \in Shapes, D \in SUBSET Ids}
  /\ pc = [s \in Sessions |-> "idle"]
  /\ loc = [s \in Sessions |-> NoLoc]
  /\ quota = [s \in Sessions |-> IF s = 1 THEN MaxQuota ELSE 0]
  /\ work = NoTxn
  /\ start = db

NextMovePending ==
  \/ \E s \in Sessions : MoveCall(s)
  \/ \E s \in Sessions : MoveWrite(s)
  \/ \E s \in Sessions : MoveUpdateNotes(s)
  \/ \E s \in Sessions : Return(s)

SpecMovePending == InitMovePending /\ [][NextMovePending]_vars

\* One session that calls MaxQuota moves on a project a delete has been
\* through: some notes are gone, and a group may hold a gap.
InitMoveAfterDelete ==
  /\ db \in {DeleteNoteTree(ShapeStore(f), root) : f \in Shapes, root \in Ids}
  /\ pc = [s \in Sessions |-> "idle"]
  /\ loc = [s \in Sessions |-> NoLoc]
  /\ quota = [s \in Sessions |-> IF s = 1 THEN MaxQuota ELSE 0]
  /\ work = NoTxn
  /\ start = db

NextMoveAfterDelete ==
  \/ \E s \in Sessions : MoveCall(s)
  \/ \E s \in Sessions : MoveWrite(s)
  \/ \E s \in Sessions : MoveUpdateNotes(s)
  \/ \E s \in Sessions : Return(s)

SpecMoveAfterDelete == InitMoveAfterDelete /\ [][NextMoveAfterDelete]_vars

\* ---------------------------------------------------------------- predicates
\* The sequence values of a sibling group.
SequenceValues(sq, p, par) == {sq[n].sequence : n \in Group(sq, p, par)}

\* No two entries of the group hold the same sequence.
DupFree(sq, p, par) == Cardinality(SequenceValues(sq, p, par)) = Cardinality(Group(sq, p, par))

\* The sequences of the group are exactly 1..N, N its size.
Dense(sq, p, par) == /\ DupFree(sq, p, par)
                     /\ SequenceValues(sq, p, par) = 1..Cardinality(Group(sq, p, par))

AllDupFree(sq) == \A p \in Projects, par \in Parents : DupFree(sq, p, par)

AllDense(sq) == \A p \in Projects, par \in Parents : Dense(sq, p, par)

\* The step is the delete operation of some session.
DeleteStep == \E s \in Sessions : pc[s] = "idle" /\ pc'[s] = "done" /\ loc'[s].op = "delete"

\* No operation is under way.
Quiet == \A s \in Sessions : pc[s] = "idle"

\* The step is the write of a move that succeeded, by session s.
MoveDone(s) == pc[s] = "move_rpc" /\ pc'[s] = "move_upd"

\* The step is the write of a move, by session s, whatever its outcome.
MoveEnded(s) == pc[s] = "move_rpc" /\ pc'[s] # "move_rpc"

\* Note m is note n or below it, following parent_id of the notes table.
RECURSIVE Below(_, _, _, _)
Below(nt, m, n, fuel) ==
  \/ m = n
  \/ /\ fuel > 0
     /\ m \in DOMAIN nt
     /\ nt[m].parent_id # Null
     /\ Below(nt, nt[m].parent_id, n, fuel - 1)

\* Following parent_id from any note reaches the root: no cycle.
Acyclic(nt) == \A n \in DOMAIN nt : nt[n].parent_id = Null \/ ~Below(nt, nt[n].parent_id, n, MaxNotes)

\* ------------------------------------------------------------------- claims
\* C1 as stated: whenever no operation is under way, the sequences of every
\* sibling group are distinct and exactly 1..N.
C1_DenseBetweenOperations == Quiet => AllDense(db.seqs)

\* C1: in every state reached by create, move, delete and normalize operations
\* no sibling group holds a sequence twice; and a group whose sequences are 1..N
\* keeps them 1..N through every step of every operation but a delete.
C1_DistinctAndDenseButForDelete ==
  /\ []AllDupFree(db.seqs)
  /\ [][\A p \in Projects, par \in Parents :
          (Dense(db.seqs, p, par) /\ ~DeleteStep) => Dense(db'.seqs, p, par)]_vars

\* A move has just been written into a group that now holds three entries.
C1_Witness ==
  \E s \in Sessions :
    /\ pc[s] = "move_upd"
    /\ Cardinality(Group(db.seqs, loc[s].project, loc[s].parent)) >= 3
    /\ Dense(db.seqs, loc[s].project, loc[s].parent)

\* C2 as stated: when the old and the new group of a move are dense, the park,
\* the shifts and the placement alone, before any normalization, leave both
\* groups dense, whatever the requested position: in the move_note of the last
\* migration and in the one before it, which runs no normalization at all.
C2_ShiftsAloneKeepDense ==
  \A s \in Sessions :
    (/\ pc[s] = "move_rpc"
     /\ Dense(db.seqs, loc[s].project, loc[s].oldParent)
     /\ Dense(db.seqs, loc[s].project, loc[s].parent))
    => \A o \in AfterPlace(db, loc[s]) \cup EarlierMoveNote(db, loc[s]) :
         o.ok => /\ Dense(o.st.seqs, loc[s].project, loc[s].oldParent)
                 /\ Dense(o.st.seqs, loc[s].project, loc[s].parent)

\* The largest position a move into group par may take: the size of the group,
\* and one more when the note comes from another group.
MaxValid(sq, a) ==
  Cardinality(Group(sq, a.project, a.parent)) + (IF a.oldParent = a.parent THEN 0 ELSE 1)

\* C3 as stated: after a move that succeeded the entry of the note has the
\* requested parent and the requested position clamped into 1..max_valid.
C3_MovedToClampedPosition ==
  [][\A s \in Sessions :
       MoveDone(s) =>
         /\ db'.seqs[loc[s].note].parent_id = loc[s].parent
         /\ db'.seqs[loc[s].note].sequence =
              Greatest(1, Least(loc[s].pos, MaxValid(db.seqs, loc[s])))]_vars

\* C3: after a move that succeeded into a group whose sequences were 1..N the
\* entry of the note has the requested parent and the requested position
\* clamped into 1..max_valid.
C3_MovedToClampedPositionInDenseGroup ==
  [][\A s \in Sessions :
       (MoveDone(s) /\ Dense(db.seqs, loc[s].project, loc[s].parent)) =>
         /\ db'.seqs[loc[s].note].parent_id = loc[s].parent
         /\ db'.seqs[loc[s].note].sequence =
              Greatest(1, Least(loc[s].pos, MaxValid(db.seqs, loc[s])))]_vars

\* A move to a position beyond the end of a dense group of at least two
\* entries has been written.
C3_Witness ==
  \E s \in Sessions :
    /\ pc[s] = "move_upd"
    /\ Dense(db.seqs, loc[s].project, loc[s].parent)
    /\ Cardinality(Group(db.seqs, loc[s].project, loc[s].parent)) >= 2
    /\ loc[s].pos > Cardinality(Group(db.seqs, loc[s].project, loc[s].parent))
    /\ db.seqs[loc[s].note].sequence = Cardinality(Group(db.seqs, loc[s].project, loc[s].parent))

\* C4 as stated: a move of a note to the parent and the sequence it has
\* changes no entry, whatever the state of its group.
C4_MoveToOwnPlaceChangesNothing ==
  [][\A s \in Sessions :
       (/\ MoveDone(s)
        /\ loc[s].parent = loc[s].oldParent
        /\ loc[s].pos = loc[s].oldSeq)
       => db'.seqs = db.seqs]_vars

\* C8 as stated: a move of a note under itself or under one of its descendants
\* is rejected and changes nothing.
C8_MoveIntoOwnSubtreeRejected ==
  [][\A s \in Sessions :
       (MoveEnded(s) /\ Below(db.notes, loc[s].parent, loc[s].note, MaxNotes))
       => (loc'[s].result = "error" /\ db' = db)]_vars

\* C9 as stated: in every state of the store each note has an entry and each
\* entry has a note.
C9_NoteAndEntryTogether == DOMAIN db.notes = DOMAIN db.seqs

\* Both sessions have come to the end of an operation op.
BothDone(op) == \A s \in Sessions : pc[s] = "done" /\ loc[s].op = op

\* C5 as stated: two creates that run concurrently into the same sibling group,
\* empty when they start, and that no failure of a request interrupts, end
\* with two entries that hold the sequences 1 and 2.
C5_ConcurrentCreatesHoldOneAndTwo ==
  (/\ BothDone("create")
   /\ loc[1].project = loc[2].project
   /\ loc[1].parent = loc[2].parent
   /\ RowRefsOK(start, NoteRow(loc[1].project, loc[1].parent))
   /\ Group(start.seqs, loc[1].project, loc[1].parent) = {}
   /\ \A s \in Sessions : loc[s].result # "failed")
  => /\ \A s \in Sessions : loc[s].result = "ok" /\ loc[s].note \in DOMAIN db.seqs
     /\ {db.seqs[loc[s].note].sequence : s \in Sessions} = {1, 2}

\* noteOperations.move run alone on store st: the stores it may leave when it
\* succeeds.
MoveOutcomes(st, n, par, pos) ==
  IF ~MoveNoteRead(st, n, par, pos).found THEN {}
  ELSE UNION {IF o.ok THEN {u.st : u \in {v \in UpdateNoteParent(o.st, n, par) : v.ok}} ELSE {}
                : o \in MoveNoteWrite(st, MoveNoteRead(st, n, par, pos))}

\* The move of a, then the move of b, one after the other.
Serial(st, a, b) ==
  UNION {MoveOutcomes(x, b.note, b.parent, b.pos) : x \in MoveOutcomes(st, a.note, a.parent, a.pos)}

\* The sibling groups a move touches: the parent it read and the one it names.
Touched(a) == {a.oldParent, a.parent}

\* The move is of a note to the root, or under a note that was neither the
\* note itself nor below it in the initial store.
OutsideSubtree(a) == a.parent = Null \/ ~Below(start.notes, a.parent, a.note, MaxNotes)

\* C6 as stated: two moves that run concurrently and touch a common sibling
\* group leave the entries as one of the two serial orders leaves them, and
\* the groups they touched dense.
C6_ConcurrentMovesSerializable ==
  (/\ BothDone("move")
   /\ \A s \in Sessions : loc[s].result = "ok" /\ OutsideSubtree(loc[s])
   /\ Touched(loc[1]) \cap Touched(loc[2]) # {})
  => /\ db.seqs \in {x.seqs : x \in Serial(start, loc[1], loc[2]) \cup Serial(start, loc[2], loc[1])}
     /\ \A par \in Touched(loc[1]) \cup Touched(loc[2]) : Dense(db.seqs, 1, par)

\* C10 as stated: in every state between operations, none of them a move of a
\* note into its own subtree, the parent of an entry is the parent of its note.
C10_EntryParentIsNoteParent ==
  (\A s \in Sessions : pc[s] \in {"idle", "done"} /\ OutsideSubtree(loc[s])) =>
  \A n \in DOMAIN db.seqs \cap DOMAIN db.notes : db.seqs[n].parent_id = db.notes[n].parent_id

\* No entry of the store holds the temporary sequence of a parked note, or the
\* one above it that the shift of the new group gives a parked note.
NoSentinel(sq) == \A n \in DOMAIN sq : sq[n].sequence < TempSequence

\* C7: the store never shows a parked entry, and no step of a move but its
\* commit changes the store: a move that fails or is interrupted after the
\* park, the shifts or any other statement leaves the store as it was.
C7_MoveAllOrNothing ==
  /\ []NoSentinel(db.seqs)
  /\ [][\A s \in Sessions : (pc[s] \in TxnStages /\ pc'[s] # "move_upd") => db' = db]_vars

\* A move has ended in an error after its park and before its placement, when
\* its own copy of the store held the parked entry.
C7_Witness ==
  \E s \in Sessions :
    /\ pc[s] = "done"
    /\ loc[s].result = "error"
    /\ loc[s].stage \in {"txn_notes", "txn_shift", "txn_place"}
    /\ db = start

\* The step is the delete operation of session s.
DeleteBy(s) == pc[s] = "idle" /\ pc'[s] = "done" /\ loc'[s].op = "delete"

\* The notes of nt that are root or below it, following parent links.
Subtree(nt, root) == {m \in DOMAIN nt : Below(nt, m, root, MaxNotes)}

\* C11: a delete removes the notes and the entries of its root and of every
\* note below it, and no other note and no other entry.
C11_DeleteRemovesExactlySubtree ==
  [][\A s \in Sessions :
       DeleteBy(s) =>
         /\ DOMAIN db'.notes = DOMAIN db.notes \ Subtree(db.notes, loc'[s].note)
         /\ DOMAIN db'.seqs = DOMAIN db.seqs \ Subtree(db.notes, loc'[s].note)]_vars

\* A delete has removed a root with at least one note below it and has left
\* at least one note.
C11_Witness ==
  \E s \in Sessions :
    /\ pc[s] = "done"
    /\ loc[s].op = "delete"
    /\ loc[s].note \in DOMAIN start.notes
    /\ Cardinality(Subtree(start.notes, loc[s].note)) >= 2
    /\ DOMAIN db.notes # {}
    /\ DOMAIN db.notes = DOMAIN start.notes \ Subtree(start.notes, loc[s].note)

\* The notes of project p in store st.
NotesOf(st, p) == {n \in DOMAIN st.notes : st.notes[n].project_id = p}

\* note_count of project p is the number of its notes.
CountAgrees(st, p) ==
  p \in DOMAIN st.settings => st.settings[p].note_count = Cardinality(NotesOf(st, p))

\* C12: every step of a delete, an interruption between two of its statements
\* included, leaves the store as it was, or removes the whole subtree, notes
\* and entries, and leaves a note_count that agrees with the notes present.
C12_DeleteAllOrNothing ==
  [][\A s \in Sessions :
       pc[s] \in DelStages =>
         \/ db' = db
         \/ /\ loc[s].note \in DOMAIN db.notes
            /\ DOMAIN db'.notes = DOMAIN db.notes \ Subtree(db.notes, loc[s].note)
            /\ DOMAIN db'.seqs = DOMAIN db.seqs \ Subtree(db.notes, loc[s].note)
            /\ CountAgrees(db', loc[s].project)]_vars

\* A delete of a root with a note below it has been interrupted after it had
\* deleted entries or notes.
C12_Witness ==
  \E s \in Sessions :
    /\ pc[s] = "done"
    /\ loc[s].op = "delete"
    /\ loc[s].result = "error"
    /\ loc[s].stage \in {"del_notes", "del_count"}
    /\ Cardinality(loc[s].ids) >= 2
    /\ db = start

\* C13: after a delete of a note of a container, the note_count of the
\* container is the number of notes that remain in it and its timestamp is
\* the time of the delete.
C13_DeleteRecounts ==
  [][\A s \in Sessions :
       (DeleteBy(s) /\ loc'[s].result = "ok" /\ loc'[s].note \in DOMAIN db.notes) =>
         /\ db.notes[loc'[s].note].project_id \in DOMAIN db'.settings
         /\ CountAgrees(db', db.notes[loc'[s].note].project_id)
         /\ db'.settings[db.notes[loc'[s].note].project_id].last_modified_at = "now"]_vars

\* A delete has left notes behind, and the count it wrote is their number.
C13_Witness ==
  \E s \in Sessions :
    /\ pc[s] = "done"
    /\ loc[s].op = "delete"
    /\ loc[s].note \in DOMAIN start.notes
    /\ start.settings[1].note_count # Cardinality(NotesOf(start, 1))
    /\ NotesOf(db, 1) # {}
    /\ db.settings[1].note_count = Cardinality(NotesOf(db, 1))
    /\ db.settings[1].last_modified_at = "now"

\* C14: in a state reached by creates, moves and deletes, a delete that
\* removes k notes of a container lowers the note_count of the container by
\* exactly k.
C14_DeleteLowersCountByRemoved ==
  [][\A s \in Sessions :
       (DeleteBy(s) /\ loc'[s].result = "ok" /\ loc'[s].note \in DOMAIN db.notes) =>
         db'.settings[db.notes[loc'[s].note].project_id].note_count =
           db.settings[db.notes[loc'[s].note].project_id].note_count
             - Cardinality(DOMAIN db.notes \ DOMAIN db'.notes)]_vars

\* The notes below root reach deeper than the delete collects.
DeeperThanCap(st, root) ==
  /\ root \in DOMAIN st.notes
  /\ Cascade(st.notes, {root}) # NotesToDelete(st, root)

\* No note names a parent that is not there.
NoOrphans(st) ==
  \A n \in DOMAIN st.notes :
    st.notes[n].parent_id = Null \/ st.notes[n].parent_id \in DOMAIN st.notes

\* C15: a delete of a root whose subtree is deeper than the depth cap reports
\* an error instead of stopping the collection silently, and leaves no note
\* whose parent it has deleted.
C15_DeepDeleteReportsLimit ==
  [][\A s \in Sessions :
       (DeleteBy(s) /\ DeeperThanCap(db, loc'[s].note)) =>
         /\ loc'[s].result = "error"
         /\ NoOrphans(db')]_vars

\* C16: a delete changes neither the parent nor the sequence of an entry it
\* leaves in place: the group of the root keeps a gap where the root was.
C16_DeleteLeavesSurvivorsAlone ==
  [][\A s \in Sessions :
       DeleteBy(s) =>
         \A n \in DOMAIN db'.seqs :
           /\ n \in DOMAIN db.seqs
           /\ db'.seqs[n].parent_id = db.seqs[n].parent_id
           /\ db'.seqs[n].sequence = db.seqs[n].sequence]_vars

\* A delete has removed an entry, and a later sibling of it still holds its
\* sequence, above the gap.
C16_Witness ==
  \E s \in Sessions :
    /\ pc[s] = "done"
    /\ loc[s].op = "delete"
    /\ loc[s].note \in DOMAIN start.seqs
    /\ loc[s].note \notin DOMAIN db.seqs
    /\ \E n \in DOMAIN db.seqs :
         /\ start.seqs[n].parent_id = start.seqs[loc[s].note].parent_id
         /\ start.seqs[n].sequence > start.seqs[loc[s].note].sequence
         /\ db.seqs[n] = start.seqs[n]
         /\ ~Dense(db.seqs, 1, db.seqs[n].parent_id)

\* The step is a normalization of kind op that returns without error.
NormalizedBy(s, op) ==
  /\ pc[s] = "idle"
  /\ pc'[s] = "done"
  /\ loc'[s].op = op
  /\ loc'[s].result = "ok"

\* From sq to sq2 the group of par in p keeps its entries, holds the
\* sequences 1..N, and keeps every strict order between two of its entries.
Renumbered(sq, sq2, p, par) ==
  /\ Group(sq2, p, par) = Group(sq, p, par)
  /\ Dense(sq2, p, par)
  /\ \A a, b \in Group(sq, p, par) :
       sq[a].sequence < sq[b].sequence => sq2[a].sequence < sq2[b].sequence

\* C17: a normalization gives the entries of the group it works on the
\* sequences 1..N and keeps their relative order.
C17_NormalizeDenseAndOrderKept ==
  [][\A s \in Sessions :
       /\ NormalizedBy(s, "normalize") =>
            Renumbered(db.seqs, db'.seqs, loc'[s].project, loc'[s].parent)
       /\ NormalizedBy(s, "normalize_all") =>
            \A par \in Parents : Renumbered(db.seqs, db'.seqs, loc'[s].project, par)]_vars

\* A normalization has renumbered a group of two or more entries that held a
\* gap or a duplicate.
C17_Witness ==
  \E s \in Sessions :
    /\ pc[s] = "done"
    /\ loc[s].op \in {"normalize", "normalize_all"}
    /\ loc[s].result = "ok"
    /\ \E par \in Parents :
         /\ Cardinality(Group(start.seqs, 1, par)) >= 2
         /\ ~Dense(start.seqs, 1, par)
         /\ Renumbered(start.seqs, db.seqs, 1, par)

\* C18: normalization is idempotent: run again on the store a normalization
\* has left, whatever that normalization started from, the same normalization
\* returns and leaves every sequence as it is.
C18_NormalizeIdempotent ==
  [][\A s \in Sessions :
       /\ NormalizedBy(s, "normalize") =>
            NormalizeNoteSequences(db', loc'[s].project, loc'[s].parent) = {Ok(db')}
       /\ NormalizedBy(s, "normalize_all") =>
            NormalizeSequences(db', loc'[s].project) = {Ok(db')}]_vars

\* A normalization has changed a group that held duplicates, and a second run
\* of it changes nothing.
C18_Witness ==
  \E s \in Sessions :
    /\ pc[s] = "done"
    /\ loc[s].op = "normalize"
    /\ loc[s].result = "ok"
    /\ ~DupFree(start.seqs, loc[s].project, loc[s].parent)
    /\ db.seqs # start.seqs
    /\ NormalizeNoteSequences(db, loc[s].project, loc[s].parent) = {Ok(db)}

\* From sq to sq2 the entries of the group of par in p are ranked by their
\* sequence in sq, and those of equal sequence by note id.
RankedBySequenceThenId(sq, sq2, p, par) ==
  \A a, b \in Group(sq, p, par) :
    (\/ sq[a].sequence < sq[b].sequence
     \/ sq[a].sequence = sq[b].sequence /\ a < b) => sq2[a].sequence < sq2[b].sequence

\* C19: a normalization ranks the entries of the group by their sequence and
\* entries of equal sequence by note id, so its result is determined by the
\* store it starts from.
C19_TiesBrokenByNoteId ==
  [][\A s \in Sessions :
       /\ NormalizedBy(s, "normalize") =>
            RankedBySequenceThenId(db.seqs, db'.seqs, loc'[s].project, loc'[s].parent)
       /\ NormalizedBy(s, "normalize_all") =>
            \A par \in Parents :
              RankedBySequenceThenId(db.seqs, db'.seqs, loc'[s].project, par)]_vars

\* C20: a normalization called with a project and no parent works on every
\* group of the project: when it has returned, the root group and every
\* child group hold 1..N.
C20_NoParentNormalizesAllGroups ==
  [][\A s \in Sessions :
       (\/ NormalizedBy(s, "normalize") /\ loc'[s].parent = Null
        \/ NormalizedBy(s, "normalize_all")) =>
         \A par \in Parents : Dense(db'.seqs, loc'[s].project, par)]_vars

\* move_note has returned to session s without error.
MoveReturned(s) ==
  /\ loc[s].op = "move"
  /\ \/ pc[s] = "move_upd"
     \/ pc[s] = "done" /\ loc[s].result = "ok"

\* C21: when a move has returned without error, neither the group the note
\* left nor the group it entered holds a sequence twice, whatever duplicates
\* they held when the move was called.
C21_MoveRepairsDuplicates ==
  \A s \in Sessions :
    MoveReturned(s) =>
      /\ DupFree(db.seqs, loc[s].project, loc[s].oldParent)
      /\ DupFree(db.seqs, loc[s].project, loc[s].parent)

\* A move out of a root group that held a sequence twice, or into it, has
\* returned.
C21_Witness ==
  \E s \in Sessions :
    /\ pc[s] = "done"
    /\ loc[s].op = "move"
    /\ loc[s].result = "ok"
    /\ loc[s].oldParent # loc[s].parent
    /\ Null \in {loc[s].oldParent, loc[s].parent}
    /\ ~DupFree(start.seqs, 1, Null)
    /\ Cardinality(Group(db.seqs, 1, Null)) >= 2
    /\ DupFree(db.seqs, 1, Null)

\* C22: when a move has returned without error, the last-modified timestamp
\* of the project of the moved note is the time of the move.
C22_MoveTouchesProject ==
  \A s \in Sessions :
    MoveReturned(s) =>
      /\ loc[s].project \in DOMAIN db.settings
      /\ db.settings[loc[s].project].last_modified_at = "now"

\* A move has returned in a project whose timestamp was an older one.
C22_Witness ==
  \E s \in Sessions :
    /\ pc[s] = "done"
    /\ loc[s].op = "move"
    /\ loc[s].result = "ok"
    /\ start.settings[loc[s].project].last_modified_at = "old"
    /\ db.settings[loc[s].project].last_modified_at = "now"
    /\ db.settings[loc[s].project].note_count = start.settings[loc[s].project].note_count

\* The step is the insert of the entry of a create by session s, accepted.
CreatedBy(s) ==
  /\ pc[s] = "create_ins"
  /\ pc'[s] = "done"
  /\ loc'[s].result = "ok"

\* C23: a create gives the entry of its note the greatest sequence of the
\* group plus one, 1 in an empty group, and changes no other entry.
C23_CreateAppendsAfterMax ==
  [][\A s \in Sessions :
       CreatedBy(s) =>
         /\ DOMAIN db'.seqs = DOMAIN db.seqs \cup {loc[s].note}
         /\ loc[s].note \notin DOMAIN db.seqs
         /\ db'.seqs[loc[s].note] =
              SeqRow(loc[s].project, loc[s].parent,
                     IF Group(db.seqs, loc[s].project, loc[s].parent) = {} THEN 1
                     ELSE 1 + SetMax(SequenceValues(db.seqs, loc[s].project, loc[s].parent)))
         /\ \A n \in DOMAIN db.seqs : db'.seqs[n] = db.seqs[n]]_vars

\* A create has appended to a group that holds a gap: its entry is above the
\* size of the group.
C23_Witness ==
  \E s \in Sessions :
    /\ pc[s] = "done"
    /\ loc[s].op = "create"
    /\ loc[s].result = "ok"
    /\ loc[s].note \in DOMAIN db.seqs
    /\ db.seqs[loc[s].note].sequence >
         Cardinality(Group(db.seqs, loc[s].project, loc[s].parent))

\* C24: the store accepts no insert of an entry whose project, parent and
\* sequence are those of an entry it holds, under no parent as under a note.
C24_StoreRejectsEqualKey ==
  [][\A s \in Sessions :
       CreatedBy(s) =>
         \A n \in DOMAIN db.seqs :
           ~ /\ db.seqs[n].project_id = db'.seqs[loc[s].note].project_id
             /\ db.seqs[n].parent_id = db'.seqs[loc[s].note].parent_id
             /\ db.seqs[n].sequence = db'.seqs[loc[s].note].sequence]_vars

\* Every entry is under no parent or under a note of its own project.
ParentsInProject(st) ==
  \A n \in DOMAIN st.seqs :
    \/ st.seqs[n].parent_id = Null
    \/ /\ st.seqs[n].parent_id \in DOMAIN st.notes
       /\ st.notes[st.seqs[n].parent_id].project_id = st.seqs[n].project_id

\* C25: the parent of every entry is no note or a note of the project of the
\* entry, and no move makes it otherwise.
C25_NoCrossProjectParent ==
  [][\A s \in Sessions :
       (MoveDone(s) /\ ParentsInProject(db)) => ParentsInProject(db')]_vars

\* The step is the call of a move by session s.
MoveCalledBy(s) == pc[s] = "idle" /\ loc'[s].op = "move"

\* C26: a move of a note that has no entry ends in an error and writes
\* nothing: the entries, the notes and the settings are as before.
C26_MoveWithoutEntryRejected ==
  [][\A s \in Sessions :
       (MoveCalledBy(s) /\ loc'[s].note \notin DOMAIN db.seqs) =>
         /\ pc'[s] = "done"
         /\ loc'[s].result = "error"
         /\ db' = db]_vars

\* A move of a note that is in the notes table and has no entry has ended in
\* an error, in a project that holds entries.
C26_Witness ==
  \E s \in Sessions :
    /\ pc[s] = "done"
    /\ loc[s].op = "move"
    /\ loc[s].result = "error"
    /\ loc[s].note \in DOMAIN db.notes
    /\ loc[s].note \notin DOMAIN db.seqs
    /\ DOMAIN db.seqs # {}
    /\ db = start

C28_DeleteOfMissingRootRejected ==
  [][\A s \in Sessions :
       (DeleteBy(s) /\ loc'[s].note \notin DOMAIN db.notes) =>
         /\ loc'[s].result = "error"
         /\ db' = db]_vars

\* C29: when a create has returned an error, the note of its first request
\* is not in the notes table.
C29_FailedCreateLeavesNoNote ==
  \A s \in Sessions :
    (pc[s] = "done" /\ loc[s].op = "create" /\ loc[s].result # "ok") =>
      loc[s].note \notin DOMAIN db.notes

\* The position a move within a group ends at: the requested one, clamped
\* into 1..N, N the size of the group.
ClampedInGroup(sq, a) == Greatest(1, Least(a.pos, Cardinality(Group(sq, a.project, a.parent))))

\* The move written by the step stays in its group, which is dense, and goes
\* to a later position.
MovesLater(s) ==
  /\ MoveDone(s)
  /\ loc[s].oldParent = loc[s].parent
  /\ Dense(db.seqs, loc[s].project, loc[s].parent)
  /\ loc[s].oldSeq < ClampedInGroup(db.seqs, loc[s])

\* C30: a move to a later position p of the same dense group lowers by one
\* the sequence of exactly the entries that were after the old place of the
\* note and not after p, puts the note at p, and leaves every other entry of
\* the group at its sequence.
C30_LaterMoveShiftsBetween ==
  [][\A s \in Sessions :
       MovesLater(s) =>
         /\ Group(db'.seqs, loc[s].project, loc[s].parent) =
              Group(db.seqs, loc[s].project, loc[s].parent)
         /\ \A n \in Group(db.seqs, loc[s].project, loc[s].parent) :
              db'.seqs[n].sequence =
                IF n = loc[s].note THEN ClampedInGroup(db.seqs, loc[s])
                ELSE IF /\ db.seqs[n].sequence > loc[s].oldSeq
                        /\ db.seqs[n].sequence <= ClampedInGroup(db.seqs, loc[s])
                     THEN db.seqs[n].sequence - 1
                     ELSE db.seqs[n].sequence]_vars

\* A note has moved from the first to the second place of a group of three:
\* one entry has come down, one has stayed.
C30_Witness ==
  \E s \in Sessions :
    /\ pc[s] = "done"
    /\ loc[s].op = "move"
    /\ loc[s].result = "ok"
    /\ loc[s].oldParent = loc[s].parent
    /\ Dense(start.seqs, loc[s].project, loc[s].parent)
    /\ loc[s].oldSeq < db.seqs[loc[s].note].sequence
    /\ \E n, m \in Group(start.seqs, loc[s].project, loc[s].parent) \ {loc[s].note} :
         /\ db.seqs[n].sequence = start.seqs[n].sequence - 1
         /\ db.seqs[m].sequence = start.seqs[m].sequence
         /\ start.seqs[m].sequence > db.seqs[loc[s].note].sequence

\* The move written by the step stays in its group, which is dense, and goes
\* to an earlier position.
MovesEarlier(s) ==
  /\ MoveDone(s)
  /\ loc[s].oldParent = loc[s].parent
  /\ Dense(db.seqs, loc[s].project, loc[s].parent)
  /\ loc[s].oldSeq > ClampedInGroup(db.seqs, loc[s])

\* C31: a move to an earlier position p of the same dense group raises by one
\* the sequence of exactly the entries that were at p or after it and before
\* the old place of the note, puts the note at p, and leaves every other
\* entry of the group at its sequence.
C31_EarlierMoveShiftsBetween ==
  [][\A s \in Sessions :
       MovesEarlier(s) =>
         /\ Group(db'.seqs, loc[s].project, loc[s].parent) =
              Group(db.seqs, loc[s].project, loc[s].parent)
         /\ \A n \in Group(db.seqs, loc[s].project, loc[s].parent) :
              db'.seqs[n].sequence =
                IF n = loc[s].note THEN ClampedInGroup(db.seqs, loc[s])
                ELSE IF /\ db.seqs[n].sequence >= ClampedInGroup(db.seqs, loc[s])
                        /\ db.seqs[n].sequence < loc[s].oldSeq
                     THEN db.seqs[n].sequence + 1
                     ELSE db.seqs[n].sequence]_vars

\* Root group [1:1, 2:2, 3:3]: note 2 has moved to the first place, note 1 is
\* second and note 3 still third.
C31_Witness ==
  \E s \in Sessions :
    /\ pc[s] = "done"
    /\ loc[s].op = "move"
    /\ loc[s].result = "ok"
    /\ loc[s].note = 2
    /\ loc[s].parent = Null
    /\ \A n \in Ids : start.seqs[n] = SeqRow(1, Null, n)
    /\ db.seqs[2].sequence = 1
    /\ db.seqs[1].sequence = 2
    /\ db.seqs[3].sequence = 3

\* The requested position clamped into 1..N+1, N the size of the new group
\* before the note joins it.
ClampedIntoGroup(sq, a) ==
  Greatest(1, Least(a.pos, Cardinality(Group(sq, a.project, a.parent)) + 1))

\* The move written by the step takes its note from a dense group to another
\* dense group.
MovesAcross(s) ==
  /\ MoveDone(s)
  /\ loc[s].oldParent # loc[s].parent
  /\ Dense(db.seqs, loc[s].project, loc[s].oldParent)
  /\ Dense(db.seqs, loc[s].project, loc[s].parent)

\* C32: a move between two dense groups lowers by one the entries of the old
\* group that were after the note, raises by one the entries of the new group
\* that were at the clamped position p or after it, leaves the other entries
\* of both groups at their sequence, and puts the note in the new group at p.
C32_MoveAcrossShiftsBothGroups ==
  [][\A s \in Sessions :
       MovesAcross(s) =>
         /\ Group(db'.seqs, loc[s].project, loc[s].oldParent) =
              Group(db.seqs, loc[s].project, loc[s].oldParent) \ {loc[s].note}
         /\ Group(db'.seqs, loc[s].project, loc[s].parent) =
              Group(db.seqs, loc[s].project, loc[s].parent) \cup {loc[s].note}
         /\ db'.seqs[loc[s].note].sequence = ClampedIntoGroup(db.seqs, loc[s])
         /\ \A n \in Group(db.seqs, loc[s].project, loc[s].oldParent) \ {loc[s].note} :
              db'.seqs[n].sequence =
                IF db.seqs[n].sequence > loc[s].oldSeq
                THEN db.seqs[n].sequence - 1
                ELSE db.seqs[n].sequence
         /\ \A n \in Group(db.seqs, loc[s].project, loc[s].parent) :
              db'.seqs[n].sequence =
                IF db.seqs[n].sequence >= ClampedIntoGroup(db.seqs, loc[s])
                THEN db.seqs[n].sequence + 1
                ELSE db.seqs[n].sequence]_vars

\* Root [1:1, 3:2] and note 2 the only child of note 1: note 3 has moved to
\* the first place under note 1, and note 2 is second there.
C32_Witness ==
  \E s \in Sessions :
    /\ pc[s] = "done"
    /\ loc[s].op = "move"
    /\ loc[s].result = "ok"
    /\ loc[s].note = 3
    /\ loc[s].parent = 1
    /\ start.seqs[1] = SeqRow(1, Null, 1)
    /\ start.seqs[3] = SeqRow(1, Null, 2)
    /\ start.seqs[2] = SeqRow(1, 1, 1)
    /\ db.seqs[3] = SeqRow(1, 1, 1)
    /\ db.seqs[2] = SeqRow(1, 1, 2)
    /\ db.seqs[1] = SeqRow(1, Null, 1)

\* ---- move_note one UPDATE at a time
\* The positions of the function between two of its UPDATE statements.
StepStages == {"st_park", "st_notes", "st_shift", "st_open", "st_place",
               "st_sel_old", "st_row_old", "st_sel_new", "st_row_new"}

\* STEP 3, first statement: the shift inside the group, or the closing of the
\* gap in the old group.
MoveShiftFirst(st, a) ==
  IF a.oldParent = a.parent
  THEN IF a.oldSeq < a.newPos
       THEN ShiftBy(st, {n \in Group(st.seqs, a.project, a.parent) :
                           st.seqs[n].sequence > a.oldSeq /\ st.seqs[n].sequence <= a.newPos}, -1)
       ELSE ShiftBy(st, {n \in Group(st.seqs, a.project, a.parent) :
                           st.seqs[n].sequence >= a.newPos /\ st.seqs[n].sequence < a.oldSeq}, 1)
  ELSE ShiftBy(st, {n \in Group(st.seqs, a.project, a.oldParent) :
                      st.seqs[n].sequence > a.oldSeq}, -1)

\* STEP 3, second statement of a move to another parent: the space in the new
\* group.
MoveShiftSecond(st, a) ==
  ShiftBy(st, {n \in Group(st.seqs, a.project, a.parent) : st.seqs[n].sequence >= a.newPos}, 1)

\* The RPC starts: the transaction opens on the committed store and reads.
StepBegin(s) ==
  /\ MayCall(s)
  /\ \E n \in Ids, par \in Parents, pos \in Positions :
       LET a == MoveNoteRead(db, n, par, pos)
       IN  /\ SetLoc(s, [NoLoc EXCEPT !.op = "move", !.note = n, !.parent = par, !.pos = pos,
                                      !.project = a.project, !.oldParent = a.oldParent,
                                      !.oldSeq = a.oldSeq, !.newPos = a.newPos,
                                      !.result = IF a.found THEN "none" ELSE "error"])
           /\ Goto(s, IF a.found THEN "st_park" ELSE "done")
           /\ work' = IF a.found THEN db ELSE NoTxn
  /\ Spend(s)
  /\ UNCHANGED <<db, start>>

StepPark(s) == pc[s] = "st_park" /\ TxnApply(s, MovePark(work, loc[s]), "st_notes")

StepNotes(s) == pc[s] = "st_notes" /\ TxnApply(s, MoveNotes(work, loc[s]), "st_shift")

StepShift(s) ==
  /\ pc[s] = "st_shift"
  /\ TxnApply(s, MoveShiftFirst(work, loc[s]),
              IF loc[s].oldParent = loc[s].parent THEN "st_place" ELSE "st_open")

StepOpen(s) == pc[s] = "st_open" /\ TxnApply(s, MoveShiftSecond(work, loc[s]), "st_place")

StepPlace(s) == pc[s] = "st_place" /\ TxnApply(s, MovePlace(work, loc[s]), "st_sel_old")

\* The group a normalization of the move works on: the old one first.
StepParent(s) == IF pc[s] \in {"st_sel_old", "st_row_old"} THEN loc[s].oldParent ELSE loc[s].parent

\* normalize_note_sequences opens its loop: the SELECT ... ORDER BY sequence
\* fixes the rows and their order.
StepSelect(s) ==
  /\ pc[s] \in {"st_sel_old", "st_sel_new"}
  /\ \E o \in Orderings(work.seqs, Group(work.seqs, loc[s].project, StepParent(s))) :
       SetLoc(s, [loc[s] EXCEPT !.order = o, !.row = 1])
  /\ Goto(s, IF pc[s] = "st_sel_old" THEN "st_row_old" ELSE "st_row_new")
  /\ UNCHANGED <<db, quota, work, start>>

\* One turn of the loop: UPDATE note_sequences SET sequence = current_seq
\* WHERE id = note_record.id.
StepAssign(s) ==
  /\ pc[s] \in {"st_row_old", "st_row_new"}
  /\ loc[s].row <= Len(loc[s].order)
  /\ LET r  == loc[s].order[loc[s].row]
         sq == SetSeq(work.seqs, r, loc[s].row)
     IN  IF RowUniqueOK(sq, r)
         THEN /\ work' = [work EXCEPT !.seqs = sq]
              /\ SetLoc(s, [loc[s] EXCEPT !.row = @ + 1])
              /\ UNCHANGED pc
         ELSE /\ work' = NoTxn
              /\ SetLoc(s, [loc[s] EXCEPT !.result = "error", !.stage = pc[s]])
              /\ Goto(s, "done")
  /\ UNCHANGED <<db, quota, start>>

\* The loop has no row left: the function goes on to the new group, when it
\* is another, and then to its last statement.
StepLoopEnd(s) ==
  /\ pc[s] \in {"st_row_old", "st_row_new"}
  /\ loc[s].row > Len(loc[s].order)
  /\ Goto(s, IF pc[s] = "st_row_old" /\ loc[s].oldParent # loc[s].parent
             THEN "st_sel_new" ELSE "txn_commit")
  /\ SetLoc(s, [loc[s] EXCEPT !.order = <<>>, !.row = 0])
  /\ UNCHANGED <<db, quota, work, start>>

\* One session that calls MaxQuota moves, one UPDATE at a time, on a project
\* whose groups hold no duplicate: dense groups and groups with gaps.
InitSteps ==
  /\ db \in UNION {{SeqStore(f, q) : q \in {x \in Admitted(f) : AllDupFree(SeqStore(f, x).seqs)}}
                     : f \in Forests}
  /\ pc = [s \in Sessions |-> "idle"]
  /\ loc = [s \in Sessions |-> NoLoc]
  /\ quota = [s \in Sessions |-> IF s = 1 THEN MaxQuota ELSE 0]
  /\ work = NoTxn
  /\ start = db

NextSteps ==
  \/ \E s \in Sessions : StepBegin(s)
  \/ \E s \in Sessions : StepPark(s)
  \/ \E s \in Sessions : StepNotes(s)
  \/ \E s \in Sessions : StepShift(s)
  \/ \E s \in Sessions : StepOpen(s)
  \/ \E s \in Sessions : StepPlace(s)
  \/ \E s \in Sessions : StepSelect(s)
  \/ \E s \in Sessions : StepAssign(s)
  \/ \E s \in Sessions : StepLoopEnd(s)
  \/ \E s \in Sessions : TxnCommit(s)
  \/ \E s \in Sessions : MoveUpdateNotes(s)
  \/ \E s \in Sessions : Return(s)

SpecSteps == InitSteps /\ [][NextSteps]_vars

\* A move is between two of its statements, in session s.
InsideMove(s) == pc[s] \in StepStages \cup {"txn_commit"}

\* C33: within one move that starts from groups without duplicates, after the
\* park, after each shift statement, after the placement and after each
\* assignment of a normalization, no two entries of one group hold the same
\* sequence, the parked note counted in the group it is parked in.
C33_NoDuplicateBetweenStatements ==
  \A s \in Sessions : InsideMove(s) => AllDupFree(work.seqs)

\* Root [1:1, 2:2, 3:3], note 3 called to the first place: it is parked at the
\* root, the shift has raised notes 1 and 2, and the placement is next.
C33_Witness ==
  \E s \in Sessions :
    /\ pc[s] = "st_place"
    /\ loc[s].note = 3
    /\ loc[s].parent = Null
    /\ \A n \in Ids : db.seqs[n] = SeqRow(1, Null, n)
    /\ work.seqs[3] = SeqRow(1, Null, TempSequence)
    /\ work.seqs[1] = SeqRow(1, Null, 2)
    /\ work.seqs[2] = SeqRow(1, Null, 3)

\* The group holds a gap: its sequences are distinct and are not 1..N.
HasGap(sq, p, par) == DupFree(sq, p, par) /\ ~Dense(sq, p, par)

\* C34: after a delete has left a gap in a sibling group, the next move that
\* returns without error and has that group as its old or its new group
\* leaves the sequences of the group at exactly 1..N.
C34_MoveAfterDeleteRestoresDensity ==
  [][\A s \in Sessions :
       MoveDone(s) =>
         \A par \in {loc[s].oldParent, loc[s].parent} :
           HasGap(db.seqs, loc[s].project, par) => Dense(db'.seqs, loc[s].project, par)]_vars

\* The delete of note 1 has left notes 2 and 3 at the root at 2 and 3; a move
\* of note 3 under note 2 has returned, and the root holds note 2 at 1.
C34_Witness ==
  \E s \in Sessions :
    /\ pc[s] = "done"
    /\ loc[s].op = "move"
    /\ loc[s].result = "ok"
    /\ loc[s].note = 3
    /\ loc[s].parent = 2
    /\ DOMAIN start.seqs = {2, 3}
    /\ start.seqs[2] = SeqRow(1, Null, 2)
    /\ start.seqs[3] = SeqRow(1, Null, 3)
    /\ db.seqs[2] = SeqRow(1, Null, 1)
    /\ db.seqs[3] = SeqRow(1, 2, 1)

\* ---- delete_note_tree, its recursive query one iteration at a time
\* The call starts: the transaction opens, the function reads the project of
\* the root, and the base case of the query gives the root at depth 1.
CollectBegin(s) ==
  /\ MayCall(s)
  /\ \E root \in Ids :
       SetLoc(s, [NoLoc EXCEPT !.op = "delete", !.note = root,
                               !.project = IF root \in DOMAIN db.notes
                                           THEN db.notes[root].project_id ELSE 0,
                               !.level = {root} \cap DOMAIN db.notes,
                               !.ids = {root} \cap DOMAIN db.notes,
                               !.depth = 1])
  /\ work' = db
  /\ Goto(s, "del_collect")
  /\ Spend(s)
  /\ UNCHANGED <<db, start>>

\* Variant: the recursive case gives a child the depth of its parent row.
CollectLevelSameDepth(s) ==
  /\ pc[s] = "del_collect"
  /\ loc[s].level # {}
  /\ LET new == IF loc[s].depth < DepthCap
                THEN {n \in DOMAIN work.notes : work.notes[n].parent_id \in loc[s].level}
                ELSE {}
     IN  SetLoc(s, [loc[s] EXCEPT !.level = new, !.ids = @ \cup new])
  /\ UNCHANGED <<db, pc, quota, work, start>>

\* One iteration of the recursive case over the rows of the last one: the
\* notes whose parent is one of them, as long as their depth is below the cap.
CollectLevel(s) ==
  /\ pc[s] = "del_collect"
  /\ loc[s].level # {}
  /\ LET new == IF loc[s].depth < DepthCap
                THEN {n \in DOMAIN work.notes : work.notes[n].parent_id \in loc[s].level}
                ELSE {}
     IN  SetLoc(s, [loc[s] EXCEPT !.level = new, !.ids = @ \cup new,
                                  !.depth = IF new = {} THEN @ ELSE @ + 1])
  /\ UNCHANGED <<db, pc, quota, work, start>>

\* An iteration has given no row: the query ends and array_agg has the ids.
CollectEnd(s) ==
  /\ pc[s] = "del_collect"
  /\ loc[s].level = {}
  /\ Goto(s, "del_seqs")
  /\ UNCHANGED <<db, loc, quota, work, start>>

\* One session that deletes MaxQuota trees in a project of MaxNotes notes
\* whose parents are any the moves can give them, cycles included.
InitCollect ==
  /\ db \in {ShapeStore(f) : f \in [Ids -> Parents]}
  /\ pc = [s \in Sessions |-> "idle"]
  /\ loc = [s \in Sessions |-> NoLoc]
  /\ quota = [s \in Sessions |-> IF s = 1 THEN MaxQuota ELSE 0]
  /\ work = NoTxn
  /\ start = db

NextCollect ==
  \/ \E s \in Sessions : CollectBegin(s)
  \/ \E s \in Sessions : CollectLevel(s)
  \/ \E s \in Sessions : CollectEnd(s)
  \/ \E s \in Sessions : DelEntries(s)
  \/ \E s \in Sessions : DelNotes(s)
  \/ \E s \in Sessions : DelRecount(s)
  \/ \E s \in Sessions : DelCommit(s)
  \/ \E s \in Sessions : Return(s)

SpecCollect == InitCollect /\ [][NextCollect]_vars

\* The server runs a call that has started: no step that can be taken is put
\* off for ever.
SpecCollectFair == SpecCollect /\ WF_vars(NextCollect)

\* C35: a delete that has started comes to its end, on every store, a store
\* whose parents form a cycle included: the collection of the descendants
\* stops once its rows are at the depth cap.
C35_DeleteTerminates ==
  \A s \in Sessions : (pc[s] = "del_collect") ~> (pc[s] = "done" /\ loc[s].depth <= DepthCap)

\* Notes 1 and 2 are each the parent of the other: the delete of note 1 has
\* collected rows down to the depth cap and has returned.
C35_Witness ==
  \E s \in Sessions :
    /\ pc[s] = "done"
    /\ loc[s].op = "delete"
    /\ loc[s].result = "ok"
    /\ loc[s].note = 1
    /\ loc[s].depth = DepthCap
    /\ start.notes[1].parent_id = 2
    /\ start.notes[2].parent_id = 1
    /\ {1, 2} \cap DOMAIN db.notes = {}

\* Entry n is outside the old and the new group of the move of session s.
OutsideMove(s, n) ==
  /\ n # loc[s].note
  /\ \/ db.seqs[n].project_id # loc[s].project
     \/ db.seqs[n].parent_id \notin {loc[s].oldParent, loc[s].parent}

\* C36: a move leaves as they are the parent and the sequence of every entry
\* of a group that is neither its old nor its new group, in the project of the
\* note and in every other, whether these groups are dense, hold gaps or hold
\* duplicates; and it adds and removes no entry.
C36_MoveLeavesOtherGroups ==
  [][\A s \in Sessions :
       MoveEnded(s) =>
         /\ DOMAIN db'.seqs = DOMAIN db.seqs
         /\ \A n \in DOMAIN db.seqs : OutsideMove(s, n) => db'.seqs[n] = db.seqs[n]]_vars

\* Notes 1 and 2 share sequence 1 at the root and note 3 is under note 1: the
\* move of note 3 under note 2 has returned and the root is as it was.
C36_Witness ==
  \E s \in Sessions :
    /\ pc[s] = "done"
    /\ loc[s].op = "move"
    /\ loc[s].result = "ok"
    /\ loc[s].note = 3
    /\ loc[s].parent = 2
    /\ start.seqs[1] = SeqRow(1, Null, 1)
    /\ start.seqs[2] = SeqRow(1, Null, 1)
    /\ start.seqs[3].parent_id = 1
    /\ db.seqs[3] = SeqRow(1, 2, 1)
    /\ db.seqs[1] = start.seqs[1]
    /\ db.seqs[2] = start.seqs[2]

\* ---- a move and the move back
\* noteOperations.move, the RPC, as the first half of a round trip: start
\* keeps the store the trip leaves from.
TripCall(s) ==
  /\ MayCall(s)
  /\ \E n \in Ids, par \in Parents, pos \in Positions :
       LET a == MoveNoteRead(db, n, par, pos)
       IN  /\ SetLoc(s, [NoLoc EXCEPT !.op = "move", !.note = n, !.parent = par, !.pos = pos,
                                      !.project = a.project, !.oldParent = a.oldParent,
                                      !.oldSeq = a.oldSeq, !.newPos = a.newPos,
                                      !.result = IF a.found THEN "none" ELSE "error"])
           /\ Goto(s, IF a.found THEN "move_rpc" ELSE "done")
  /\ Spend(s)
  /\ start' = db
  /\ UNCHANGED <<db, work>>

\* noteOperations.move called again once the first move has returned: the
\* same note, the parent and the sequence it had before.
MoveBackCall(s) ==
  /\ pc[s] = "done"
  /\ loc[s].op = "move"
  /\ loc[s].result = "ok"
  /\ ~loc[s].back
  /\ LET a == MoveNoteRead(db, loc[s].note, loc[s].oldParent, loc[s].oldSeq)
     IN  /\ SetLoc(s, [loc[s] EXCEPT !.parent = loc[s].oldParent, !.pos = loc[s].oldSeq,
                                     !.oldParent = a.oldParent, !.oldSeq = a.oldSeq,
                                     !.newPos = a.newPos, !.back = TRUE,
                                     !.result = IF a.found THEN "none" ELSE "error"])
         /\ Goto(s, IF a.found THEN "move_rpc" ELSE "done")
  /\ UNCHANGED <<db, quota, work, start>>

\* One session that makes MaxQuota round trips on a project of MaxNotes notes
\* in dense groups.
InitRoundTrip ==
  /\ db \in {ShapeStore(f) : f \in Forests}
  /\ pc = [s \in Sessions |-> "idle"]
  /\ loc = [s \in Sessions |-> NoLoc]
  /\ quota = [s \in Sessions |-> IF s = 1 THEN MaxQuota ELSE 0]
  /\ work = NoTxn
  /\ start = db

NextRoundTrip ==
  \/ \E s \in Sessions : TripCall(s)
  \/ \E s \in Sessions : MoveWrite(s)
  \/ \E s \in Sessions : MoveUpdateNotes(s)
  \/ \E s \in Sessions : MoveBackCall(s)
  \/ \E s \in Sessions : Return(s)

SpecRoundTrip == InitRoundTrip /\ [][NextRoundTrip]_vars

\* The move back of session s has returned without error.
CameBack(s) == pc[s] = "done" /\ loc[s].op = "move" /\ loc[s].back /\ loc[s].result = "ok"

\* C37: from dense groups, a move of a note to any parent and position, then
\* the move of the note back to the parent and the sequence it had, leave
\* every note with the parent and the sequence it had before the first move.
C37_MoveAndBackRestores ==
  \A s \in Sessions :
    (CameBack(s) /\ AllDense(start.seqs)) =>
      /\ db.seqs = start.seqs
      /\ db.notes = start.notes

\* Root [1:1, 2:2, 3:3]: note 1 went under note 3 and has come back, and the
\* root is [1:1, 2:2, 3:3] again.
C37_Witness ==
  \E s \in Sessions :
    /\ CameBack(s)
    /\ loc[s].note = 1
    /\ loc[s].oldParent = 3
    /\ loc[s].parent = Null
    /\ \A n \in Ids : start.seqs[n] = SeqRow(1, Null, n)
    /\ db.seqs = start.seqs

\* ---- noteOperations.loadNotes and switchProject
\* orderMap.get(id) || 0: the sequence of the entry of the note, 0 without one.
OrderValue(sq, p, n) ==
  IF n \in DOMAIN sq /\ sq[n].project_id = p THEN sq[n].sequence ELSE 0

\* The rows of the notes of a project, in any order the query returns them.
NoteRows(nt, p) ==
  LET N == {n \in DOMAIN nt : nt[n].project_id = p}
  IN  {o \in [1..Cardinality(N) -> N] : \A i, j \in DOMAIN o : i # j => o[i] # o[j]}

\* Variant: the comparator is seqB - seqA.
InsertSortedDescending(sq, p, srt, n) ==
  LET k == Cardinality({i \in DOMAIN srt : OrderValue(sq, p, srt[i]) >= OrderValue(sq, p, n)})
  IN  SubSeq(srt, 1, k) \o <<n>> \o SubSeq(srt, k + 1, Len(srt))

\* A note takes its place in a sorted list: after the notes that the
\* comparator seqA - seqB does not put after it (the sort is stable).
InsertSorted(sq, p, srt, n) ==
  LET k == Cardinality({i \in DOMAIN srt : OrderValue(sq, p, srt[i]) <= OrderValue(sq, p, n)})
  IN  SubSeq(srt, 1, k) \o <<n>> \o SubSeq(srt, k + 1, Len(srt))

\* notes.sort((a, b) => seqA - seqB)
RECURSIVE SortNotes(_, _, _)
SortNotes(sq, p, rows) ==
  IF rows = <<>> THEN <<>>
  ELSE InsertSorted(sq, p, SortNotes(sq, p, SubSeq(rows, 1, Len(rows) - 1)), rows[Len(rows)])

\* noteOperations.loadNotes on the rows the second query has returned.
LoadNotes(st, p, rows) == SortNotes(st.seqs, p, rows)

\* The list a loaded note is pushed to: the children of its parent when the
\* parent is loaded, the root notes otherwise.
ListOf(nt, notes, n) ==
  IF nt[n].parent_id # Null /\ \E i \in DOMAIN notes : notes[i] = nt[n].parent_id
  THEN nt[n].parent_id
  ELSE Null

\* notes.forEach of switchProject over the first i loaded notes: tree[Null]
\* is rootNotes, tree[k] the children array of note k.
RECURSIVE BuildTree(_, _, _)
BuildTree(nt, notes, i) ==
  IF i = 0 THEN [k \in Parents |-> <<>>]
  ELSE LET t == BuildTree(nt, notes, i - 1)
       IN  [t EXCEPT ![ListOf(nt, notes, notes[i])] = Append(@, notes[i])]

\* switchProject: it loads the notes of the project and builds the tree.
SwitchProject(s) ==
  /\ MayCall(s)
  /\ \E p \in Projects :
       \E rows \in NoteRows(db.notes, p) :
         SetLoc(s, [NoLoc EXCEPT !.op = "load", !.project = p, !.result = "ok",
                                 !.order = LoadNotes(db, p, rows),
                                 !.tree = BuildTree(db.notes, LoadNotes(db, p, rows), Len(rows))])
  /\ Goto(s, "done")
  /\ Spend(s)
  /\ UNCHANGED <<db, work, start>>

\* The sequences that are distinct in every group of the parents f, the
\* group of the NULL parent included.
DistinctInGroups(f) ==
  {q \in [Ids -> 1..SeqCap] : \A n, m \in Ids : (n # m /\ f[n] = f[m]) => q[n] # q[m]}

\* One session that opens MaxQuota projects; the notes of project 1 have any
\* parents and, in every group, distinct sequences.
InitLoad ==
  /\ \E f \in [Ids -> Parents] : \E q \in DistinctInGroups(f) : db = SeqStore(f, q)
  /\ pc = [s \in Sessions |-> "idle"]
  /\ loc = [s \in Sessions |-> NoLoc]
  /\ quota = [s \in Sessions |-> IF s = 1 THEN MaxQuota ELSE 0]
  /\ work = NoTxn
  /\ start = db

NextLoad ==
  \/ \E s \in Sessions : SwitchProject(s)
  \/ \E s \in Sessions : Return(s)

SpecLoad == InitLoad /\ [][NextLoad]_vars

\* Session s has built the tree of a project.
Loaded(s) == pc[s] = "done" /\ loc[s].op = "load"

\* The notes of project p that belong in list k of the tree.
Listed(nt, p, k) ==
  {n \in DOMAIN nt : nt[n].project_id = p /\ nt[n].parent_id = k}

\* C38: in the tree built from the loaded notes, the children list of every
\* note, and the list of the root notes, hold exactly the notes stored under
\* that parent, each once, in ascending order of their stored sequence,
\* whenever the sequences of every group are distinct.
C38_TreeListsBySequence ==
  \A s \in Sessions :
    (Loaded(s) /\ AllDupFree(db.seqs)) =>
      \A k \in Parents :
        LET l == loc[s].tree[k]
        IN  /\ {l[i] : i \in DOMAIN l} = Listed(db.notes, loc[s].project, k)
            /\ \A i, j \in DOMAIN l :
                 i < j => db.seqs[l[i]].sequence < db.seqs[l[j]].sequence

\* Notes 1, 2, 3 at the root with sequences 3, 1, 2: the root list of the
\* tree is 2, 3, 1.
C38_Witness ==
  \E s \in Sessions :
    /\ Loaded(s)
    /\ db.seqs[1] = SeqRow(1, Null, 3)
    /\ db.seqs[2] = SeqRow(1, Null, 1)
    /\ db.seqs[3] = SeqRow(1, Null, 2)
    /\ loc[s].tree[Null] = <<2, 3, 1>>

====
